---------------------------- MODULE Spec2Model ----------------------------
(***************************************************************************)
(* Model of the lifecycle-analysis backend: the column mapper              *)
(* (backend/src/utils/columnMapper.js) and the upload controller           *)
(* (backend/src/controllers/uploadController.js).                          *)
(*                                                                         *)
(* JavaScript strings are modelled as sequences of one-character strings,  *)
(* so that toLowerCase, trim, includes, replace and the number and date    *)
(* parsers are computed character by character, as the code computes them. *)
(***************************************************************************)
EXTENDS Integers, Sequences, FiniteSets, TLC

VARIABLES req, jobStorage, res, now, call, objectPrototype, clock, uploads

vars == <<req, jobStorage, res, now, call, objectPrototype, clock, uploads>>

(***************************************************************************)
(* Characters and strings                                                  *)
(***************************************************************************)

UpperCase == <<"A", "B", "C", "D", "E", "F", "G", "H", "I", "J", "K", "L", "M", "N", "O", "P", "Q", "R", "S", "T", "U", "V", "W", "X", "Y", "Z">>

LowerCase == <<"a", "b", "c", "d", "e", "f", "g", "h", "i", "j", "k", "l", "m", "n", "o", "p", "q", "r", "s", "t", "u", "v", "w", "x", "y", "z">>

Digits == <<"0", "1", "2", "3", "4", "5", "6", "7", "8", "9">>

\* The characters /\s/ matches, among the characters the inputs are made of.
WhiteSpace == {" ", "\t"}

Range(s) == {s[i] : i \in 1..Len(s)}

ToLowerChar(c) ==
  IF \E i \in 1..26 : UpperCase[i] = c
  THEN LowerCase[CHOOSE i \in 1..26 : UpperCase[i] = c]
  ELSE c

ToUpperChar(c) ==
  IF \E i \in 1..26 : LowerCase[i] = c
  THEN UpperCase[CHOOSE i \in 1..26 : LowerCase[i] = c]
  ELSE c

\* String.prototype.toLowerCase
ToLowerCase(s) == [i \in 1..Len(s) |-> ToLowerChar(s[i])]

\* String.prototype.toUpperCase
ToUpperCase(s) == [i \in 1..Len(s) |-> ToUpperChar(s[i])]

\* String.prototype.trim
Trim(s) ==
  LET keep == {i \in 1..Len(s) : s[i] \notin WhiteSpace}
      lo == CHOOSE i \in keep : \A j \in keep : i <= j
      hi == CHOOSE i \in keep : \A j \in keep : j <= i
  IN IF keep = {} THEN <<>> ELSE SubSeq(s, lo, hi)

\* s with its leading white space removed (the first step of parseFloat and parseInt)
TrimStart(s) ==
  LET keep == {i \in 1..Len(s) : s[i] \notin WhiteSpace}
      lo == CHOOSE i \in keep : \A j \in keep : i <= j
  IN IF keep = {} THEN <<>> ELSE SubSeq(s, lo, Len(s))

\* String.prototype.includes
Includes(s, sub) ==
  \E i \in 0..(Len(s) - Len(sub)) : SubSeq(s, i + 1, i + Len(sub)) = sub

\* s.replace(/\s+/g, '_') : every maximal run of white space becomes one '_'
ReplaceSpaceRuns(s) ==
  LET mark == [i \in 1..Len(s) |->
                 IF s[i] \notin WhiteSpace THEN s[i]
                 ELSE IF i > 1 /\ s[i - 1] \in WhiteSpace THEN "" ELSE "_"]
  IN SelectSeq(mark, LAMBDA c : c # "")

\* s.replace(/[^a-z0-9_]/g, '')
StripNonSlug(s) ==
  SelectSeq(s, LAMBDA c : c \in Range(LowerCase) \cup Range(Digits) \cup {"_"})

\* s.replace(/[$,]/g, '')
StripCurrency(s) == SelectSeq(s, LAMBDA c : c \notin {"$", ","})

DigitVal(c) == (CHOOSE i \in 1..10 : Digits[i] = c) - 1

RECURSIVE NatToStr(_)
NatToStr(n) ==
  IF n < 10 THEN <<Digits[n + 1]>>
  ELSE NatToStr(n \div 10) \o <<Digits[(n % 10) + 1]>>

\* Number.prototype.toString of an integer
IntToStr(n) == IF n < 0 THEN <<"-">> \o NatToStr(0 - n) ELSE NatToStr(n)

RECURSIVE DigitsToNat(_)
DigitsToNat(s) ==
  IF s = <<>> THEN 0
  ELSE 10 * DigitsToNat(SubSeq(s, 1, Len(s) - 1)) + DigitVal(s[Len(s)])

\* The longest prefix of s made of decimal digits.
DigitPrefix(s) ==
  LET stop == {i \in 1..Len(s) : s[i] \notin Range(Digits)}
      first == CHOOSE i \in stop : \A j \in stop : i <= j
  IN IF stop = {} THEN s ELSE SubSeq(s, 1, first - 1)

(***************************************************************************)
(* JavaScript numbers as results: an integer or NaN.  The inputs hold no   *)
(* fraction, exponent, hexadecimal prefix or "Infinity", so every number   *)
(* the program computes on them is an integer.                             *)
(***************************************************************************)
NumR(n) == [nan |-> FALSE, n |-> n]

NaNR == [nan |-> TRUE, n |-> 0]

\* The common core of parseFloat(string) and parseInt(string): skip leading
\* white space, read an optional sign and the longest run of digits; NaN when
\* there is no digit.
ParseNumberPrefix(s) ==
  LET t == TrimStart(s)
      signed == t # <<>> /\ t[1] \in {"-", "+"}
      body == IF signed THEN Tail(t) ELSE t
      digs == DigitPrefix(body)
  IN IF digs = <<>> THEN NaNR
     ELSE NumR(IF signed /\ t[1] = "-" THEN 0 - DigitsToNat(digs) ELSE DigitsToNat(digs))

(***************************************************************************)
(* JavaScript scalar values.  t is the type, v the text String(value)      *)
(* gives; a number's text is its canonical decimal form, so two values are *)
(* === exactly when they are equal here.                                   *)
(***************************************************************************)
Str(s) == [t |-> "str", v |-> s]

Num(n) == [t |-> "num", v |-> IntToStr(n)]

NaNValue == [t |-> "num", v |-> <<"N", "a", "N">>]

Bool(b) == [t |-> "bool", v |-> IF b THEN <<"t", "r", "u", "e">> ELSE <<"f", "a", "l", "s", "e">>]

Undefined == [t |-> "undef", v |-> <<"u", "n", "d", "e", "f", "i", "n", "e", "d">>]

Null == [t |-> "null", v |-> <<"n", "u", "l", "l">>]

\* ToBoolean: what `!value`, `a || b` and `if (value)` test
Truthy(x) ==
  CASE x.t = "str" -> x.v # <<>>
    [] x.t = "num" -> x.v \notin {<<"0">>, <<"N", "a", "N">>}
    [] x.t = "bool" -> x.v = <<"t", "r", "u", "e">>
    [] OTHER -> FALSE

\* a || b
Or(a, b) == IF Truthy(a) THEN a ELSE b

\* parseInt(x): x is converted to a string first
ParseInt(x) == ParseNumberPrefix(x.v)

\* number || 0, for a numeric result
OrZero(r) == IF r.nan THEN 0 ELSE r.n

\* parseInt(x) || 0
ParseIntOrZero(x) == OrZero(ParseInt(x))

\* parseFloat(s) on a string, as integers (see NumR)
ParseFloat(s) == ParseNumberPrefix(s)

(***************************************************************************)
(* Dates.  A Date is valid or not; a valid one is known by its UTC         *)
(* calendar day, kept as the number yyyymmdd, which orders as the days do. *)
(* The clock `now` is the UTC day of `new Date()` in the same form: a date *)
(* parsed from a day-only string is that day's midnight, so it is <= the   *)
(* current instant exactly when its day is <= the current day.             *)
(***************************************************************************)
InvalidDate == [valid |-> FALSE, day |-> 0]

DateOn(d) == [valid |-> TRUE, day |-> d]

IsLeap(y) == (y % 4 = 0 /\ y % 100 # 0) \/ y % 400 = 0

DaysInMonth(y, m) ==
  IF m = 2 THEN (IF IsLeap(y) THEN 29 ELSE 28)
  ELSE IF m \in {4, 6, 9, 11} THEN 30 ELSE 31

\* The ISO day-only form YYYY-MM-DD of the date-time string format.
IsIsoDay(s) ==
  /\ Len(s) = 10
  /\ s[5] = "-" /\ s[8] = "-"
  /\ \A i \in {1, 2, 3, 4, 6, 7, 9, 10} : s[i] \in Range(Digits)
  /\ LET y == DigitsToNat(SubSeq(s, 1, 4))
         m == DigitsToNat(SubSeq(s, 6, 7))
         d == DigitsToNat(SubSeq(s, 9, 10))
     IN m \in 1..12 /\ d \in 1..DaysInMonth(y, m)

IsoDayKey(s) ==
  DigitsToNat(SubSeq(s, 1, 4)) * 10000 + DigitsToNat(SubSeq(s, 6, 7)) * 100
    + DigitsToNat(SubSeq(s, 9, 10))

\* new Date(value).  A string in the ISO day-only form is that day; a string
\* with no digit at all is not a date.  Other strings are parsed by the
\* engine's own fallback rules and are not drawn as inputs.  A number is a
\* count of milliseconds since 1970-01-01, a boolean or null its ToNumber.
NewDate(x) ==
  CASE x.t = "str" /\ IsIsoDay(x.v) -> DateOn(IsoDayKey(x.v))
    [] x.t = "str" /\ Range(x.v) \cap Range(Digits) = {} -> InvalidDate
    [] x.t = "num" /\ x.v = <<"N", "a", "N">> -> InvalidDate
    [] x.t = "num" /\ x.v # <<"N", "a", "N">> /\ ParseInt(x).n \in 0..86399999 -> DateOn(19700101)
    [] x.t = "num" /\ x.v # <<"N", "a", "N">> /\ ParseInt(x).n \in (0 - 86400000)..(0 - 1) -> DateOn(19691231)
    [] x.t \in {"bool", "null"} -> DateOn(19700101)
    [] x.t = "undef" -> InvalidDate

Pad2(n) == IF n < 10 THEN <<"0">> \o NatToStr(n) ELSE NatToStr(n)

\* date.toISOString().split('T')[0], for the years 1000..9999
IsoDayString(d) ==
  NatToStr(d \div 10000) \o <<"-">> \o Pad2((d \div 100) % 100) \o <<"-">> \o Pad2(d % 100)

(***************************************************************************)
(* Objects.  An object is a function from its own keys to values.  A raw   *)
(* row is null or an object whose keys are listed in Object.keys order     *)
(* (no header of the inputs is an integer index, so this is the column     *)
(* order of the file).                                                     *)
(***************************************************************************)
EmptyObject == <<>>

\* obj[k], obj.k : an own property, or undefined
Get(obj, k) == IF k \in DOMAIN obj THEN obj[k] ELSE Undefined

\* obj[k] = v for a scalar v.  Assigning a scalar to __proto__ runs the
\* inherited setter, which ignores it: no own property is created.
SetProp(obj, k, v) ==
  IF k = <<"_", "_", "p", "r", "o", "t", "o", "_", "_">> THEN obj
  ELSE [x \in (DOMAIN obj) \cup {k} |-> IF x = k THEN v ELSE obj[x]]

\* The names every object literal {} inherits from Object.prototype, each
\* with a truthy value.  breakdown[key] reads such a name when the object
\* has no own property of that name.
ObjectPrototypeKeys ==
  {<<"c", "o", "n", "s", "t", "r", "u", "c", "t", "o", "r">>, <<"t", "o", "S", "t", "r", "i", "n", "g">>, <<"t", "o", "L", "o", "c", "a", "l", "e", "S", "t", "r", "i", "n", "g">>, <<"v", "a", "l", "u", "e", "O", "f">>, <<"h", "a", "s", "O", "w", "n", "P", "r", "o", "p", "e", "r", "t", "y">>,
   <<"i", "s", "P", "r", "o", "t", "o", "t", "y", "p", "e", "O", "f">>, <<"p", "r", "o", "p", "e", "r", "t", "y", "I", "s", "E", "n", "u", "m", "e", "r", "a", "b", "l", "e">>, <<"_", "_", "p", "r", "o", "t", "o", "_", "_">>, <<"_", "_", "d", "e", "f", "i", "n", "e", "G", "e", "t", "t", "e", "r", "_", "_">>,
   <<"_", "_", "d", "e", "f", "i", "n", "e", "S", "e", "t", "t", "e", "r", "_", "_">>, <<"_", "_", "l", "o", "o", "k", "u", "p", "G", "e", "t", "t", "e", "r", "_", "_">>, <<"_", "_", "l", "o", "o", "k", "u", "p", "S", "e", "t", "t", "e", "r", "_", "_">>}

\* A property the code has added to Object.prototype itself is inherited by
\* every object too: `prototype` maps the added names to their (numeric)
\* values.  !obj[key], for a key that is no own property of obj, is false
\* when the inherited value is truthy.
InheritedTruthy(prototype, key) ==
  \/ key \in ObjectPrototypeKeys
  \/ key \in DOMAIN prototype /\ ~prototype[key].nan /\ prototype[key].n # 0

NullRow == [isNull |-> TRUE, cols |-> <<>>]

Row(cols) == [isNull |-> FALSE, cols |-> cols]

\* An element of processData's result: a normalized object, or the raw row
\* returned as it was (only a null row makes normalizeRow throw).
NullItem == [isNull |-> TRUE, obj |-> EmptyObject]

Item(obj) == [isNull |-> FALSE, obj |-> obj]

(***************************************************************************)
(* columnMapper.js                                                         *)
(***************************************************************************)
COLUMN_MAPPINGS == <<
  [name |-> <<"m", "f", "g">>, variations |-> <<<<"m", "f", "g">>, <<"m", "a", "n", "u", "f", "a", "c", "t", "u", "r", "e", "r">>, <<"v", "e", "n", "d", "o", "r">>, <<"s", "u", "p", "p", "l", "i", "e", "r">>, <<"m", "a", "k", "e">>, <<"b", "r", "a", "n", "d">>>>],
  [name |-> <<"c", "a", "t", "e", "g", "o", "r", "y">>, variations |-> <<<<"c", "a", "t", "e", "g", "o", "r", "y">>, <<"b", "u", "s", "i", "n", "e", "s", "s", " ", "e", "n", "t", "i", "t", "y">>, <<"b", "u", "s", "i", "n", "e", "s", "s", "_", "e", "n", "t", "i", "t", "y">>, <<"b", "u", "s", "i", "n", "e", "s", "s", "e", "n", "t", "i", "t", "y">>, <<"b", "u", "s", "_", "e", "n", "t", "i", "t", "y">>, <<"p", "r", "o", "d", "u", "c", "t", " ", "c", "a", "t", "e", "g", "o", "r", "y">>, <<"p", "r", "o", "d", "u", "c", "t", "_", "c", "a", "t", "e", "g", "o", "r", "y">>>>],
  [name |-> <<"a", "s", "s", "e", "t", "_", "t", "y", "p", "e">>, variations |-> <<<<"a", "s", "s", "e", "t", " ", "t", "y", "p", "e">>, <<"a", "s", "s", "e", "t", "_", "t", "y", "p", "e">>, <<"a", "s", "s", "e", "t", "t", "y", "p", "e">>, <<"t", "y", "p", "e", " ", "o", "f", " ", "a", "s", "s", "e", "t">>, <<"e", "q", "u", "i", "p", "m", "e", "n", "t", " ", "t", "y", "p", "e">>, <<"e", "q", "u", "i", "p", "m", "e", "n", "t", "_", "t", "y", "p", "e">>>>],
  [name |-> <<"t", "y", "p", "e">>, variations |-> <<<<"t", "y", "p", "e">>, <<"p", "r", "o", "d", "u", "c", "t", " ", "t", "y", "p", "e">>, <<"p", "r", "o", "d", "u", "c", "t", "_", "t", "y", "p", "e">>, <<"m", "o", "d", "e", "l", " ", "t", "y", "p", "e">>, <<"m", "o", "d", "e", "l", "_", "t", "y", "p", "e">>>>],
  [name |-> <<"p", "r", "o", "d", "u", "c", "t", "_", "i", "d">>, variations |-> <<<<"p", "r", "o", "d", "u", "c", "t", " ", "i", "d">>, <<"p", "r", "o", "d", "u", "c", "t", "_", "i", "d">>, <<"p", "r", "o", "d", "u", "c", "t", "i", "d">>, <<"p", "i", "d">>, <<"p", "r", "o", "d", "u", "c", "t", " ", "n", "u", "m", "b", "e", "r">>, <<"p", "r", "o", "d", "u", "c", "t", "_", "n", "u", "m", "b", "e", "r">>, <<"p", "a", "r", "t", " ", "n", "u", "m", "b", "e", "r">>, <<"p", "a", "r", "t", "_", "n", "u", "m", "b", "e", "r">>, <<"s", "k", "u">>>>],
  [name |-> <<"d", "e", "s", "c", "r", "i", "p", "t", "i", "o", "n">>, variations |-> <<<<"d", "e", "s", "c", "r", "i", "p", "t", "i", "o", "n">>, <<"p", "r", "o", "d", "u", "c", "t", " ", "d", "e", "s", "c", "r", "i", "p", "t", "i", "o", "n">>, <<"p", "r", "o", "d", "u", "c", "t", "_", "d", "e", "s", "c", "r", "i", "p", "t", "i", "o", "n">>, <<"p", "r", "o", "d", "u", "c", "t", "d", "e", "s", "c", "r", "i", "p", "t", "i", "o", "n">>, <<"d", "e", "s", "c">>, <<"d", "e", "t", "a", "i", "l", "s">>, <<"p", "r", "o", "d", "u", "c", "t", " ", "d", "e", "t", "a", "i", "l", "s">>>>],
  [name |-> <<"s", "h", "i", "p", "_", "d", "a", "t", "e">>, variations |-> <<<<"s", "h", "i", "p", " ", "d", "a", "t", "e">>, <<"s", "h", "i", "p", "_", "d", "a", "t", "e">>, <<"s", "h", "i", "p", "d", "a", "t", "e">>, <<"s", "h", "i", "p", " ", "d", "t">>, <<"s", "h", "i", "p", "_", "d", "t">>, <<"s", "h", "i", "p", "p", "e", "d", " ", "d", "a", "t", "e">>, <<"s", "h", "i", "p", "p", "e", "d", "_", "d", "a", "t", "e">>, <<"d", "a", "t", "e", " ", "s", "h", "i", "p", "p", "e", "d">>, <<"d", "a", "t", "e", "_", "s", "h", "i", "p", "p", "e", "d">>>>],
  [name |-> <<"q", "t", "y">>, variations |-> <<<<"q", "t", "y">>, <<"q", "u", "a", "n", "t", "i", "t", "y">>, <<"c", "o", "u", "n", "t">>, <<"a", "m", "o", "u", "n", "t">>, <<"u", "n", "i", "t", "s">>, <<"t", "o", "t", "a", "l", " ", "q", "t", "y">>, <<"t", "o", "t", "a", "l", "_", "q", "t", "y">>>>],
  [name |-> <<"t", "o", "t", "a", "l", "_", "v", "a", "l", "u", "e">>, variations |-> <<<<"t", "o", "t", "a", "l", " ", "v", "a", "l", "u", "e">>, <<"t", "o", "t", "a", "l", "_", "v", "a", "l", "u", "e">>, <<"t", "o", "t", "a", "l", "v", "a", "l", "u", "e">>, <<"v", "a", "l", "u", "e">>, <<"c", "o", "s", "t">>, <<"p", "r", "i", "c", "e">>, <<"t", "o", "t", "a", "l", " ", "c", "o", "s", "t">>, <<"t", "o", "t", "a", "l", "_", "c", "o", "s", "t">>, <<"t", "o", "t", "a", "l", " ", "p", "r", "i", "c", "e">>, <<"t", "o", "t", "a", "l", "_", "p", "r", "i", "c", "e">>, <<"e", "x", "t", "e", "n", "d", "e", "d", " ", "p", "r", "i", "c", "e">>, <<"e", "x", "t", "e", "n", "d", "e", "d", "_", "p", "r", "i", "c", "e">>>>],
  [name |-> <<"s", "u", "p", "p", "o", "r", "t", "_", "c", "o", "v", "e", "r", "a", "g", "e">>, variations |-> <<<<"s", "u", "p", "p", "o", "r", "t", " ", "c", "o", "v", "e", "r", "a", "g", "e">>, <<"s", "u", "p", "p", "o", "r", "t", "_", "c", "o", "v", "e", "r", "a", "g", "e">>, <<"s", "u", "p", "p", "o", "r", "t", "c", "o", "v", "e", "r", "a", "g", "e">>, <<"c", "o", "v", "e", "r", "a", "g", "e">>, <<"m", "a", "i", "n", "t", "e", "n", "a", "n", "c", "e">>, <<"s", "u", "p", "p", "o", "r", "t", " ", "s", "t", "a", "t", "u", "s">>, <<"s", "u", "p", "p", "o", "r", "t", "_", "s", "t", "a", "t", "u", "s">>, <<"m", "a", "i", "n", "t", "e", "n", "a", "n", "c", "e", " ", "s", "t", "a", "t", "u", "s">>, <<"m", "a", "i", "n", "t", "e", "n", "a", "n", "c", "e", "_", "s", "t", "a", "t", "u", "s">>, <<"c", "o", "v", "e", "r", "e", "d">>>>],
  [name |-> <<"e", "n", "d", "_", "o", "f", "_", "s", "a", "l", "e">>, variations |-> <<<<"e", "n", "d", " ", "o", "f", " ", "s", "a", "l", "e">>, <<"e", "n", "d", "_", "o", "f", "_", "s", "a", "l", "e">>, <<"e", "n", "d", "o", "f", "s", "a", "l", "e">>, <<"e", "n", "d", " ", "o", "f", " ", "p", "r", "o", "d", "u", "c", "t", " ", "s", "a", "l", "e">>, <<"e", "n", "d", "_", "o", "f", "_", "p", "r", "o", "d", "u", "c", "t", "_", "s", "a", "l", "e">>, <<"e", "o", "s">>, <<"s", "a", "l", "e", " ", "e", "n", "d", " ", "d", "a", "t", "e">>, <<"s", "a", "l", "e", "_", "e", "n", "d", "_", "d", "a", "t", "e">>, <<"d", "i", "s", "c", "o", "n", "t", "i", "n", "u", "e", "d", " ", "d", "a", "t", "e">>, <<"d", "i", "s", "c", "o", "n", "t", "i", "n", "u", "e", "d", "_", "d", "a", "t", "e">>>>],
  [name |-> <<"l", "a", "s", "t", "_", "d", "a", "y", "_", "s", "u", "p", "p", "o", "r", "t">>, variations |-> <<<<"l", "a", "s", "t", " ", "d", "a", "y", " ", "s", "u", "p", "p", "o", "r", "t">>, <<"l", "a", "s", "t", "_", "d", "a", "y", "_", "s", "u", "p", "p", "o", "r", "t">>, <<"l", "a", "s", "t", "d", "a", "y", "s", "u", "p", "p", "o", "r", "t">>, <<"l", "a", "s", "t", " ", "s", "u", "p", "p", "o", "r", "t">>, <<"l", "a", "s", "t", "_", "s", "u", "p", "p", "o", "r", "t">>, <<"l", "a", "s", "t", " ", "d", "a", "t", "e", " ", "o", "f", " ", "s", "u", "p", "p", "o", "r", "t">>, <<"l", "a", "s", "t", "_", "d", "a", "t", "e", "_", "o", "f", "_", "s", "u", "p", "p", "o", "r", "t">>, <<"e", "n", "d", " ", "o", "f", " ", "s", "u", "p", "p", "o", "r", "t">>, <<"e", "n", "d", "_", "o", "f", "_", "s", "u", "p", "p", "o", "r", "t">>, <<"s", "u", "p", "p", "o", "r", "t", " ", "e", "n", "d", " ", "d", "a", "t", "e">>, <<"s", "u", "p", "p", "o", "r", "t", "_", "e", "n", "d", "_", "d", "a", "t", "e">>, <<"e", "o", "s", "l">>>>]
>>

\* variations.includes(lowerKey)
HasVariation(variations, lowerKey) ==
  \E j \in 1..Len(variations) : variations[j] = lowerKey

\* The index of the first entry of the mappings one of whose variations is
\* lowerKey (the `for ... break` loop), or 0.
MatchedMapping(mappings, lowerKey) ==
  LET hits == {i \in 1..Len(mappings) : HasVariation(mappings[i].variations, lowerKey)}
  IN IF hits = {} THEN 0 ELSE CHOOSE i \in hits : \A j \in hits : i <= j

\* A faulty variant of CleanKey: the white space is stripped, not replaced.
CleanKeyWithoutUnderscores(lowerKey) == StripNonSlug(lowerKey)

\* lowerKey.replace(/\s+/g, '_').replace(/[^a-z0-9_]/g, '')
CleanKey(lowerKey) == StripNonSlug(ReplaceSpaceRuns(lowerKey))

\* normalizedKey: the matched entry's name, or the cleaned header when no
\* entry matched (m = 0).
MappedKey(mappings, lowerKey, m) ==
  IF m # 0 THEN mappings[m].name ELSE CleanKey(lowerKey)

\* The key of `normalized` that normalizeRow writes for the header originalKey.
NormalizedKeyOfLower(mappings, lowerKey) ==
  MappedKey(mappings, lowerKey, MatchedMapping(mappings, lowerKey))

\* A faulty variant of NormalizedKey: the header is not trimmed.
NormalizedKeyUntrimmed(originalKey) ==
  NormalizedKeyOfLower(COLUMN_MAPPINGS, ToLowerCase(originalKey))

NormalizedKey(originalKey) ==
  NormalizedKeyOfLower(COLUMN_MAPPINGS, Trim(ToLowerCase(originalKey)))

IsSentinel(value) ==
  ~Truthy(value) \/ value = Str(<<"-">>) \/ value = Str(<<"N", "/", "A">>) \/ value = Str(<<"n", "/", "a">>)

\* normalizeSupport of columnMapper.js (the lenient scheme)
normalizeSupport(value) ==
  LET lowerValue == Trim(ToLowerCase(value.v))
  IN IF IsSentinel(value) THEN Str(<<"-">>)
     ELSE IF \/ Includes(lowerValue, <<"c", "o", "v", "e", "r", "e", "d">>)
             \/ Includes(lowerValue, <<"a", "c", "t", "i", "v", "e">>)
             \/ Includes(lowerValue, <<"y", "e", "s">>)
             \/ Includes(lowerValue, <<"v", "a", "l", "i", "d">>)
             \/ Includes(lowerValue, <<"c", "u", "r", "r", "e", "n", "t">>)
             \/ Includes(lowerValue, <<"m", "a", "i", "n", "t", "e", "n", "a", "n", "c", "e">>)
             \/ lowerValue = <<"y">>
             \/ lowerValue = <<"1">>
             \/ lowerValue = <<"t", "r", "u", "e">>
          THEN Str(<<"A", "c", "t", "i", "v", "e">>)
     ELSE IF \/ Includes(lowerValue, <<"n", "o", "t", " ", "c", "o", "v", "e", "r", "e", "d">>)
             \/ Includes(lowerValue, <<"n", "o", " ", "c", "o", "v", "e", "r", "a", "g", "e">>)
             \/ Includes(lowerValue, <<"e", "x", "p", "i", "r", "e", "d">>)
             \/ Includes(lowerValue, <<"n", "o", "n", "e">>)
             \/ Includes(lowerValue, <<"n", "o">>)
             \/ lowerValue = <<"n">>
             \/ lowerValue = <<"0">>
             \/ lowerValue = <<"f", "a", "l", "s", "e">>
          THEN Str(<<"E", "x", "p", "i", "r", "e", "d">>)
     ELSE value

\* formatDate of columnMapper.js
\* isNaN(date.getTime()) ? value : date.toISOString().split('T')[0]
DateOrOriginal(value, date) ==
  IF ~date.valid THEN value ELSE Str(IsoDayString(date.day))

formatDate(value) ==
  IF IsSentinel(value) THEN Str(<<"-">>) ELSE DateOrOriginal(value, NewDate(value))

\* normalizeNumber of columnMapper.js
normalizeNumber(value) ==
  IF IsSentinel(value) THEN Num(0)
  ELSE LET cleanValue == Trim(StripCurrency(value.v))
           number == ParseFloat(cleanValue)
       IN IF number.nan THEN Num(0) ELSE Num(number.n)

\* The forEach of normalizeRow: the columns are written in order, a later
\* column overwriting an earlier one that got the same key.
RECURSIVE MapColumns(_, _)
MapColumns(cols, normalized) ==
  IF cols = <<>> THEN normalized
  ELSE MapColumns(Tail(cols),
                  SetProp(normalized, NormalizedKey(Head(cols)[1]), Head(cols)[2]))

\* normalized.support_coverage = normalizeSupport(normalized.support_coverage)
CoerceSupport(normalized, field) ==
  SetProp(normalized, field, normalizeSupport(Get(normalized, field)))

\* normalized[field] = formatDate(normalized[field])
CoerceDate(normalized, field) ==
  SetProp(normalized, field, formatDate(Get(normalized, field)))

\* normalized[field] = normalizeNumber(normalized[field])
CoerceNumber(normalized, field) ==
  SetProp(normalized, field, normalizeNumber(Get(normalized, field)))

\* The six fields normalizeRow coerces after mapping, in the code's order.
ApplySpecial(normalized) ==
  CoerceNumber(
    CoerceNumber(
      CoerceDate(
        CoerceDate(
          CoerceDate(CoerceSupport(normalized, <<"s", "u", "p", "p", "o", "r", "t", "_", "c", "o", "v", "e", "r", "a", "g", "e">>), <<"s", "h", "i", "p", "_", "d", "a", "t", "e">>),
          <<"e", "n", "d", "_", "o", "f", "_", "s", "a", "l", "e">>),
        <<"l", "a", "s", "t", "_", "d", "a", "y", "_", "s", "u", "p", "p", "o", "r", "t">>),
      <<"q", "t", "y">>),
    <<"t", "o", "t", "a", "l", "_", "v", "a", "l", "u", "e">>)

\* normalizeRow(row) for a row that is an object; Object.keys(null) throws.
normalizeRow(row) == ApplySpecial(MapColumns(row.cols, EmptyObject))

normalizeRowThrows(row) == row.isNull

\* if (!normalized.id) normalized.id = index + 1, with the 0-based index
AddRowId(normalized, index) ==
  IF ~Truthy(Get(normalized, <<"i", "d">>)) THEN SetProp(normalized, <<"i", "d">>, Num(index + 1))
  ELSE normalized

\* processData of columnMapper.js, on an array
processData(data) ==
  [i \in 1..Len(data) |->
     IF normalizeRowThrows(data[i]) THEN NullItem
     ELSE Item(AddRowId(normalizeRow(data[i]), i - 1))]


\* One pass of the forEach of getColumnMapping: the header is mapped to the
\* matched entry's name; when no entry matched, `!mapping[originalKey]` is
\* false for a header that is a name inherited from Object.prototype, and
\* the mapping gets no property for it.
MapHeader(mapping, originalKey, m) ==
  IF m # 0 THEN SetProp(mapping, originalKey, Str(COLUMN_MAPPINGS[m].name))
  ELSE IF InheritedTruthy(objectPrototype, originalKey) THEN mapping
  ELSE SetProp(mapping, originalKey, Str(CleanKey(Trim(ToLowerCase(originalKey)))))

RECURSIVE MapHeaders(_, _)
MapHeaders(cols, mapping) ==
  IF cols = <<>> THEN mapping
  ELSE MapHeaders(Tail(cols),
                  MapHeader(mapping, Head(cols)[1],
                            MatchedMapping(COLUMN_MAPPINGS, Trim(ToLowerCase(Head(cols)[1])))))

\* Object.keys(firstRow) on a null first row throws.
getColumnMappingThrows(data) == Len(data) > 0 /\ data[1].isNull

\* getColumnMapping(data), on an array
getColumnMapping(data) ==
  IF Len(data) = 0 THEN EmptyObject
  ELSE MapHeaders(data[1].cols, EmptyObject)

(***************************************************************************)
(* uploadController.js: the built-in processData, used when the column     *)
(* mapper module cannot be loaded (the strict scheme)                      *)
(***************************************************************************)

\* The raw row as the object the decoder built: its headers are its keys.
RowObject(row) ==
  [k \in {row.cols[i][1] : i \in 1..Len(row.cols)} |->
     row.cols[CHOOSE i \in 1..Len(row.cols) : row.cols[i][1] = k][2]]

\* A faulty variant of the nested normalizeSupport: the text is compared
\* without being trimmed.
builtinNormalizeSupportUntrimmed(value) ==
  LET strValue == value.v
      upperValue == ToUpperCase(strValue)
  IN IF ~Truthy(value) THEN Str(<<"E", "x", "p", "i", "r", "e", "d">>)
     ELSE IF strValue \in {<<"-">>, <<".">>, <<"?">>, <<"0">>, <<>>} THEN Str(<<"E", "x", "p", "i", "r", "e", "d">>)
     ELSE IF upperValue = <<"A", "C", "T", "I", "V", "E">> \/ upperValue = <<"C", "O", "V", "E", "R", "E", "D">> THEN Str(<<"A", "c", "t", "i", "v", "e">>)
     ELSE Str(<<"E", "x", "p", "i", "r", "e", "d">>)

\* The nested normalizeSupport of the built-in processData
builtinNormalizeSupport(value) ==
  LET strValue == Trim(value.v)
      upperValue == ToUpperCase(strValue)
  IN IF ~Truthy(value) \/ value = Str(<<>>) \/ value = Null \/ value = Undefined
       THEN Str(<<"E", "x", "p", "i", "r", "e", "d">>)
     ELSE IF strValue \in {<<"-">>, <<".">>, <<"?">>, <<"0">>, <<>>} THEN Str(<<"E", "x", "p", "i", "r", "e", "d">>)
     ELSE IF upperValue = <<"A", "C", "T", "I", "V", "E">> \/ upperValue = <<"C", "O", "V", "E", "R", "E", "D">> THEN Str(<<"A", "c", "t", "i", "v", "e">>)
     ELSE Str(<<"E", "x", "p", "i", "r", "e", "d">>)

\* row.a || row.b || ... || last
RECURSIVE FirstTruthy(_, _, _)
FirstTruthy(obj, keys, last) ==
  IF keys = <<>> THEN last
  ELSE IF Truthy(Get(obj, Head(keys))) THEN Get(obj, Head(keys))
  ELSE FirstTruthy(obj, Tail(keys), last)

\* a || b, for two integers
NumOr(a, b) == IF a # 0 THEN a ELSE b

\* parseInt(row.a) || parseInt(row.b) || ... || 0
RECURSIVE FirstParsedInt(_, _)
FirstParsedInt(obj, keys) ==
  IF keys = <<>> THEN 0
  ELSE NumOr(ParseIntOrZero(Get(obj, Head(keys))), FirstParsedInt(obj, Tail(keys)))

\* The value the built-in scheme consults for support_coverage.
builtinSupportCoverage(o) ==
  LET coveredLineStatus == Get(o, <<"C", "o", "v", "e", "r", "e", "d", " ", "L", "i", "n", "e", " ", "S", "t", "a", "t", "u", "s">>)
      coverage == Get(o, <<"C", "o", "v", "e", "r", "a", "g", "e">>)
  IN IF Truthy(coveredLineStatus) THEN builtinNormalizeSupport(coveredLineStatus)
     ELSE IF Truthy(coverage) THEN builtinNormalizeSupport(coverage)
     ELSE Str(<<"E", "x", "p", "i", "r", "e", "d">>)

\* normalizedItem of the built-in processData, for the row at 0-based index
builtinNormalizedItem(row, index) ==
  LET o == RowObject(row)
      dash == Str(<<"-">>)
      tv == ParseFloat(FirstTruthy(o, <<<<"t", "o", "t", "a", "l", "_", "v", "a", "l", "u", "e">>, <<"T", "o", "t", "a", "l", " ", "V", "a", "l", "u", "e">>, <<"t", "o", "t", "a", "l", "v", "a", "l", "u", "e">>, <<"v", "a", "l", "u", "e">>>>, Num(0)).v)
  IN (<<"i", "d">> :> Num(index + 1))
     @@ (<<"m", "f", "g">> :> FirstTruthy(o, <<<<"m", "f", "g">>, <<"M", "a", "n", "u", "f", "a", "c", "t", "u", "r", "e", "r">>, <<"m", "a", "n", "u", "f", "a", "c", "t", "u", "r", "e", "r">>, <<"v", "e", "n", "d", "o", "r">>>>, dash))
     @@ (<<"c", "a", "t", "e", "g", "o", "r", "y">> :> FirstTruthy(o, <<<<"c", "a", "t", "e", "g", "o", "r", "y">>, <<"B", "u", "s", "i", "n", "e", "s", "s", " ", "E", "n", "t", "i", "t", "y">>, <<"b", "u", "s", "i", "n", "e", "s", "s", "_", "e", "n", "t", "i", "t", "y">>>>, dash))
     @@ (<<"a", "s", "s", "e", "t", "_", "t", "y", "p", "e">> :> FirstTruthy(o, <<<<"a", "s", "s", "e", "t", "_", "t", "y", "p", "e">>, <<"A", "s", "s", "e", "t", " ", "T", "y", "p", "e">>, <<"A", "s", "s", "e", "t", "T", "y", "p", "e">>>>, dash))
     @@ (<<"t", "y", "p", "e">> :> FirstTruthy(o, <<<<"t", "y", "p", "e">>, <<"T", "y", "p", "e">>, <<"P", "r", "o", "d", "u", "c", "t", " ", "T", "y", "p", "e">>>>, dash))
     @@ (<<"p", "r", "o", "d", "u", "c", "t", "_", "i", "d">> :> FirstTruthy(o, <<<<"p", "r", "o", "d", "u", "c", "t", "_", "i", "d">>, <<"P", "r", "o", "d", "u", "c", "t", " ", "I", "D">>, <<"p", "r", "o", "d", "u", "c", "t", "i", "d">>, <<"p", "i", "d">>>>, dash))
     @@ (<<"d", "e", "s", "c", "r", "i", "p", "t", "i", "o", "n">> :> FirstTruthy(o, <<<<"d", "e", "s", "c", "r", "i", "p", "t", "i", "o", "n">>, <<"P", "r", "o", "d", "u", "c", "t", " ", "D", "e", "s", "c", "r", "i", "p", "t", "i", "o", "n">>, <<"p", "r", "o", "d", "u", "c", "t", "_", "d", "e", "s", "c", "r", "i", "p", "t", "i", "o", "n">>>>, dash))
     @@ (<<"s", "h", "i", "p", "_", "d", "a", "t", "e">> :> FirstTruthy(o, <<<<"s", "h", "i", "p", "_", "d", "a", "t", "e">>, <<"S", "h", "i", "p", " ", "D", "a", "t", "e">>, <<"S", "h", "i", "p", "D", "a", "t", "e">>, <<"s", "h", "i", "p", "_", "d", "t">>>>, dash))
     @@ (<<"q", "t", "y">> :> Num(FirstParsedInt(o, <<<<"I", "t", "e", "m", " ", "Q", "u", "a", "n", "t", "i", "t", "y">>, <<"q", "t", "y">>, <<"Q", "t", "y">>, <<"q", "u", "a", "n", "t", "i", "t", "y">>, <<"Q", "u", "a", "n", "t", "i", "t", "y">>>>)))
     @@ (<<"t", "o", "t", "a", "l", "_", "v", "a", "l", "u", "e">> :> (IF tv.nan THEN Num(0) ELSE Num(tv.n)))
     @@ (<<"s", "u", "p", "p", "o", "r", "t", "_", "c", "o", "v", "e", "r", "a", "g", "e">> :> builtinSupportCoverage(o))
     @@ (<<"e", "n", "d", "_", "o", "f", "_", "s", "a", "l", "e">> :> FirstTruthy(o, <<<<"E", "n", "d", " ", "o", "f", " ", "P", "r", "o", "d", "u", "c", "t", " ", "S", "a", "l", "e", " ", "D", "a", "t", "e">>, <<"E", "n", "d", " ", "o", "f", " ", "P", "r", "o", "d", "u", "c", "t", " ", "S", "a", "l", "e">>, <<"e", "n", "d", "_", "o", "f", "_", "s", "a", "l", "e">>, <<"e", "n", "d", "_", "o", "f", "_", "p", "r", "o", "d", "u", "c", "t", "_", "s", "a", "l", "e">>>>, dash))
     @@ (<<"l", "a", "s", "t", "_", "d", "a", "y", "_", "s", "u", "p", "p", "o", "r", "t">> :> FirstTruthy(o, <<<<"L", "a", "s", "t", " ", "D", "a", "t", "e", " ", "o", "f", " ", "S", "u", "p", "p", "o", "r", "t">>, <<"l", "a", "s", "t", "_", "d", "a", "y", "_", "s", "u", "p", "p", "o", "r", "t">>, <<"l", "a", "s", "t", "_", "d", "a", "t", "e", "_", "o", "f", "_", "s", "u", "p", "p", "o", "r", "t">>, <<"L", "a", "s", "t", " ", "S", "u", "p", "p", "o", "r", "t">>>>, dash))

\* The built-in processData has no try/catch: a null row makes it throw.
builtinProcessDataThrows(data) == \E i \in 1..Len(data) : data[i].isNull

builtinProcessData(data) ==
  [i \in 1..Len(data) |-> Item(builtinNormalizedItem(data[i], i - 1))]

(***************************************************************************)
(* uploadController.js: the analytics of uploadFile                        *)
(***************************************************************************)

RECURSIVE SumSeq(_)
SumSeq(s) == IF s = <<>> THEN 0 ELSE Head(s) + SumSeq(Tail(s))

\* array.filter(p).length, given for each element whether p holds of it
Count(passes) == Cardinality({i \in 1..Len(passes) : passes[i]})

\* parseInt(item.qty) || 0
ItemQty(item) == ParseIntOrZero(Get(item.obj, <<"q", "t", "y">>))

\* normalizedData.reduce((sum, item) => sum + (parseInt(item.qty) || 0), 0)
TotalQuantity(normalizedData) ==
  SumSeq([i \in 1..Len(normalizedData) |-> ItemQty(normalizedData[i])])

HasSupport(item, status) == Get(item.obj, <<"s", "u", "p", "p", "o", "r", "t", "_", "c", "o", "v", "e", "r", "a", "g", "e">>) = Str(status)

\* The test the lifecycle counts make of a date field at currentDate:
\* if (!v || v === '-') no; else !isNaN(new Date(v).getTime()) && date <= currentDate
OnOrBefore(date, currentDate) == date.valid /\ date.day <= currentDate

ExpiredAt(v, currentDate) ==
  /\ Truthy(v)
  /\ v # Str(<<"-">>)
  /\ OnOrBefore(NewDate(v), currentDate)

\* item['End of Vulnerability/Security Support'] || item.end_of_vulnerability_support
\*   || item['End of Security Support'] || '-'
VulnField(item) ==
  FirstTruthy(item.obj,
              <<<<"E", "n", "d", " ", "o", "f", " ", "V", "u", "l", "n", "e", "r", "a", "b", "i", "l", "i", "t", "y", "/", "S", "e", "c", "u", "r", "i", "t", "y", " ", "S", "u", "p", "p", "o", "r", "t">>, <<"e", "n", "d", "_", "o", "f", "_", "v", "u", "l", "n", "e", "r", "a", "b", "i", "l", "i", "t", "y", "_", "s", "u", "p", "p", "o", "r", "t">>,
                <<"E", "n", "d", " ", "o", "f", " ", "S", "e", "c", "u", "r", "i", "t", "y", " ", "S", "u", "p", "p", "o", "r", "t">>>>,
              Str(<<"-">>))

\* item.mfg && item.mfg !== '-' ? item.mfg : 'Unknown', as the property key it becomes
MfgKey(item) ==
  LET mfg == Get(item.obj, <<"m", "f", "g">>)
  IN IF Truthy(mfg) /\ mfg # Str(<<"-">>) THEN mfg.v ELSE <<"U", "n", "k", "n", "o", "w", "n">>

\* item.category || 'Uncategorized', the value
CategoryValue(item) == Or(Get(item.obj, <<"c", "a", "t", "e", "g", "o", "r", "y">>), Str(<<"U", "n", "c", "a", "t", "e", "g", "o", "r", "i", "z", "e", "d">>))

\* ... and the property key it becomes in categoryBreakdown[cat]
CategoryKey(item) == CategoryValue(item).v

NewGroup == [count |-> 0, quantity |-> 0, activeCount |-> 0, expiredCount |-> 0]

\* A faulty variant of InheritedNumber: an absent property counts as 0, as
\* in `(group.count || 0) + 1`.
InheritedNumberOrZero(prototype, name) ==
  IF name \in DOMAIN prototype THEN prototype[name] ELSE NumR(0)

\* The number that `inherited.name++` and `inherited.name += n` start from:
\* the property's value, and NaN (the number undefined converts to) when
\* Object.prototype has no such property.
InheritedNumber(prototype, name) ==
  IF name \in DOMAIN prototype THEN prototype[name] ELSE NaNR

\* old + n, for a number or NaN
Plus(old, n) == IF old.nan THEN NaNR ELSE NumR(old.n + n)

\* One pass of the forEach that fills a breakdown.  `!breakdown[key]` is
\* false for an own key and for a name inherited with a truthy value; for
\* an inherited name the breakdown gets no own property and the increments
\* land on the inherited value.
AddToBreakdown(breakdown, prototype, key, item) ==
  LET inherited == key \notin DOMAIN breakdown /\ InheritedTruthy(prototype, key)
      old == IF key \in DOMAIN breakdown THEN breakdown[key] ELSE NewGroup
      new == [count |-> old.count + 1,
              quantity |-> old.quantity + ItemQty(item),
              activeCount |-> old.activeCount + (IF HasSupport(item, <<"A", "c", "t", "i", "v", "e">>) THEN 1 ELSE 0),
              expiredCount |-> old.expiredCount + (IF HasSupport(item, <<"E", "x", "p", "i", "r", "e", "d">>) THEN 1 ELSE 0)]
  IN IF inherited THEN breakdown
     ELSE [k \in (DOMAIN breakdown) \cup {key} |-> IF k = key THEN new ELSE breakdown[k]]

\* prototype with name set to value
WithProperty(prototype, name, value) ==
  [k \in (DOMAIN prototype) \cup {name} |-> IF k = name THEN value ELSE prototype[k]]

\* ... and where the increments land for the key '__proto__': the inherited
\* value is Object.prototype itself, so count++, quantity += qty and
\* activeCount++ / expiredCount++ create or update properties that every
\* object inherits.  (For the other inherited names they land on a function
\* object that nothing reads.)
PolluteSupport(prototype, item) ==
  IF HasSupport(item, <<"A", "c", "t", "i", "v", "e">>)
    THEN WithProperty(prototype, <<"a", "c", "t", "i", "v", "e", "C", "o", "u", "n", "t">>, Plus(InheritedNumber(prototype, <<"a", "c", "t", "i", "v", "e", "C", "o", "u", "n", "t">>), 1))
  ELSE IF HasSupport(item, <<"E", "x", "p", "i", "r", "e", "d">>)
    THEN WithProperty(prototype, <<"e", "x", "p", "i", "r", "e", "d", "C", "o", "u", "n", "t">>, Plus(InheritedNumber(prototype, <<"e", "x", "p", "i", "r", "e", "d", "C", "o", "u", "n", "t">>), 1))
  ELSE prototype

PolluteQuantity(prototype, item) ==
  WithProperty(prototype, <<"q", "u", "a", "n", "t", "i", "t", "y">>, Plus(InheritedNumber(prototype, <<"q", "u", "a", "n", "t", "i", "t", "y">>), ItemQty(item)))

PolluteCount(prototype) ==
  WithProperty(prototype, <<"c", "o", "u", "n", "t">>, Plus(InheritedNumber(prototype, <<"c", "o", "u", "n", "t">>), 1))

Pollute(prototype, key, item) ==
  IF key = <<"_", "_", "p", "r", "o", "t", "o", "_", "_">> THEN PolluteSupport(PolluteQuantity(PolluteCount(prototype), item), item)
  ELSE prototype

\* The breakdown a forEach builds, starting from Object.prototype as it is.
RECURSIVE Breakdown(_, _, _, _)
Breakdown(items, keys, breakdown, prototype) ==
  IF items = <<>> THEN breakdown
  ELSE Breakdown(Tail(items), Tail(keys),
                 AddToBreakdown(breakdown, prototype, Head(keys), Head(items)),
                 Pollute(prototype, Head(keys), Head(items)))

\* Object.prototype after that forEach.
RECURSIVE PrototypeAfter(_, _, _)
PrototypeAfter(items, keys, prototype) ==
  IF items = <<>> THEN prototype
  ELSE PrototypeAfter(Tail(items), Tail(keys), Pollute(prototype, Head(keys), Head(items)))

MfgKeys(normalizedData) == [i \in 1..Len(normalizedData) |-> MfgKey(normalizedData[i])]

CategoryKeys(normalizedData) == [i \in 1..Len(normalizedData) |-> CategoryKey(normalizedData[i])]

ManufacturerBreakdown(normalizedData) ==
  Breakdown(normalizedData, MfgKeys(normalizedData), EmptyObject, objectPrototype)

PrototypeAfterManufacturers(normalizedData) ==
  PrototypeAfter(normalizedData, MfgKeys(normalizedData), objectPrototype)

\* The category forEach runs after the manufacturer forEach.
CategoryBreakdown(normalizedData) ==
  Breakdown(normalizedData, CategoryKeys(normalizedData), EmptyObject,
            PrototypeAfterManufacturers(normalizedData))

\* Object.prototype when uploadFile has built both breakdowns.
PrototypeAfterAnalytics(normalizedData) ==
  PrototypeAfter(normalizedData, CategoryKeys(normalizedData),
                 PrototypeAfterManufacturers(normalizedData))

\* [...new Set(normalizedData.map(item => item.category || 'Uncategorized'))].length
TotalCategories(normalizedData) ==
  Cardinality({CategoryValue(normalizedData[i]) : i \in 1..Len(normalizedData)})

\* [...new Set(normalizedData.map(item => item.mfg).filter(m => m && m !== '-'))].length
TotalManufacturers(normalizedData) ==
  Cardinality({m \in {Get(normalizedData[i].obj, <<"m", "f", "g">>) : i \in 1..Len(normalizedData)} :
                 Truthy(m) /\ m # Str(<<"-">>)})

requiredFields ==
  <<<<"m", "f", "g">>, <<"c", "a", "t", "e", "g", "o", "r", "y">>, <<"p", "r", "o", "d", "u", "c", "t", "_", "i", "d">>, <<"d", "e", "s", "c", "r", "i", "p", "t", "i", "o", "n">>, <<"s", "u", "p", "p", "o", "r", "t", "_", "c", "o", "v", "e", "r", "a", "g", "e">>,
    <<"e", "n", "d", "_", "o", "f", "_", "s", "a", "l", "e">>, <<"l", "a", "s", "t", "_", "d", "a", "y", "_", "s", "u", "p", "p", "o", "r", "t">>, <<"a", "s", "s", "e", "t", "_", "t", "y", "p", "e">>, <<"s", "h", "i", "p", "_", "d", "a", "t", "e">>>>

\* item[field] && item[field] !== '-' && item[field] !== '' && item[field] !== 'N/A'
Filled(item, field) ==
  LET v == Get(item.obj, field)
  IN Truthy(v) /\ v # Str(<<"-">>) /\ v # Str(<<>>) /\ v # Str(<<"N", "/", "A">>)

\* Math.round((filled / length) * 100): 0 / 0 is NaN and Math.round(NaN) is NaN;
\* otherwise the quotient rounded to the nearest integer, a half rounded up.
RoundedPercent(filled, length) ==
  IF length = 0 THEN NaNR
  ELSE NumR((200 * filled + length) \div (2 * length))

FieldCompleteness(normalizedData) ==
  [field \in Range(requiredFields) |->
     RoundedPercent(Count([i \in 1..Len(normalizedData) |-> Filled(normalizedData[i], field)]),
                    Len(normalizedData))]

\* lifecycleByCategory[category], for a key of categoryBreakdown.  The filter
\* compares the record's category value with the key by ===.
LifecycleOf(normalizedData, category, currentDate) ==
  LET categoryItems == SelectSeq(normalizedData, LAMBDA item : CategoryValue(item) = Str(category))
  IN [totalQty |-> TotalQuantity(categoryItems),
      endOfSale |-> Count([i \in 1..Len(categoryItems) |-> ExpiredAt(Get(categoryItems[i].obj, <<"e", "n", "d", "_", "o", "f", "_", "s", "a", "l", "e">>), currentDate)]),
      endOfSWVuln |-> Count([i \in 1..Len(categoryItems) |-> ExpiredAt(VulnField(categoryItems[i]), currentDate)]),
      lastDaySupport |-> Count([i \in 1..Len(categoryItems) |-> ExpiredAt(Get(categoryItems[i].obj, <<"l", "a", "s", "t", "_", "d", "a", "y", "_", "s", "u", "p", "p", "o", "r", "t">>), currentDate)]),
      total |-> Len(categoryItems)]

LifecycleByCategory(normalizedData, currentDate) ==
  [category \in DOMAIN CategoryBreakdown(normalizedData) |->
     LifecycleOf(normalizedData, category, currentDate)]

\* totalRecords > 0 ? Math.round((activeSupport / totalRecords) * 100) : 0
SupportCoverage(activeSupport, totalRecords) ==
  IF totalRecords > 0 THEN RoundedPercent(activeSupport, totalRecords).n ELSE 0

Summary(normalizedData, currentDate) ==
  LET activeSupport == Count([i \in 1..Len(normalizedData) |-> HasSupport(normalizedData[i], <<"A", "c", "t", "i", "v", "e">>)])
  IN [total_items |-> Len(normalizedData),
      total_quantity |-> TotalQuantity(normalizedData),
      total_value |-> 0,
      total_manufacturers |-> TotalManufacturers(normalizedData),
      active_support |-> activeSupport,
      expired_support |-> Count([i \in 1..Len(normalizedData) |-> HasSupport(normalizedData[i], <<"E", "x", "p", "i", "r", "e", "d">>)]),
      total_categories |-> TotalCategories(normalizedData),
      total_service_contracts |-> activeSupport,
      totalRecords |-> Len(normalizedData),
      supportCoverage |-> SupportCoverage(activeSupport, Len(normalizedData)),
      categoryBreakdown |-> CategoryBreakdown(normalizedData),
      manufacturerBreakdown |-> ManufacturerBreakdown(normalizedData),
      fieldCompleteness |-> FieldCompleteness(normalizedData),
      lifecycleByCategory |-> LifecycleByCategory(normalizedData, currentDate)]

\* The analytics object stored beside the summary: it holds the objects and
\* the counts the summary was built from, and the three lifecycle totals.
Analytics(normalizedData, currentDate, summary) ==
  [categories |-> summary.categoryBreakdown,
   manufacturerBreakdown |-> summary.manufacturerBreakdown,
   completeness |-> summary.fieldCompleteness,
   lifecycle |-> summary.lifecycleByCategory,
   totalCategories |-> summary.total_categories,
   totalServiceContracts |-> summary.total_service_contracts,
   totalEndOfSale |-> Count([i \in 1..Len(normalizedData) |-> ExpiredAt(Get(normalizedData[i].obj, <<"e", "n", "d", "_", "o", "f", "_", "s", "a", "l", "e">>), currentDate)]),
   totalEndOfSWVuln |-> Count([i \in 1..Len(normalizedData) |-> ExpiredAt(VulnField(normalizedData[i]), currentDate)]),
   totalLastDaySupport |-> Count([i \in 1..Len(normalizedData) |-> ExpiredAt(Get(normalizedData[i].obj, <<"l", "a", "s", "t", "_", "d", "a", "y", "_", "s", "u", "p", "p", "o", "r", "t">>), currentDate)])]

\* The debug logging before and after processData calls Object.keys(row) on
\* the first rows and reads item.qty of every element: a null row, returned
\* by processData as it was, makes it throw a TypeError, which the inner
\* catch turns into the 500 response.
AnalyticsThrows(parsedData) == \E i \in 1..Len(parsedData) : parsedData[i].isNull

\* jobStorage[jobId] = { jobId, customerName, filename, status, data, summary,
\*                        analytics, timestamp, rows_processed }
JobRecord(jobId, request, normalizedData, summary, currentDate) ==
  [jobId |-> jobId,
   customerName |-> Or(request.customerName, Str(<<"U", "n", "k", "n", "o", "w", "n">>)),
   filename |-> request.filename,
   status |-> "completed",
   data |-> normalizedData,
   summary |-> summary,
   analytics |-> Analytics(normalizedData, currentDate, summary),
   timestamp |-> [day |-> currentDate, minute |-> clock],
   rows_processed |-> Len(normalizedData)]

\* The job built from the normalized records ...
JobOf(jobId, request, normalizedData, currentDate) ==
  JobRecord(jobId, request, normalizedData, Summary(normalizedData, currentDate), currentDate)

\* ... which are processData(parsedData)
Job(jobId, request, currentDate) ==
  JobOf(jobId, request, processData(request.rows), currentDate)

NoJob == <<>>

Response(status, error, job_id, rows_uploaded) ==
  [status |-> status, error |-> error, job_id |-> job_id, rows_uploaded |-> rows_uploaded]

NoResponse == Response(0, "", NoJob, 0)

(***************************************************************************)
(* Inputs                                                                  *)
(***************************************************************************)

\* The longest sequence of raw rows an upload holds.
MaxRows == 2

\* The longest generated string given to the coercers.
MaxStrLen == 2

\* The raw rows the decoders hand over.
RowPool ==
  { Row(<< <<<<"M", "a", "n", "u", "f", "a", "c", "t", "u", "r", "e", "r">>, Str(<<"C", "i", "s", "c", "o">>)>>, <<<<"C", "a", "t", "e", "g", "o", "r", "y">>, Str(<<"R", "o", "u", "t", "e", "r">>)>>,
           <<<<"Q", "t", "y">>, Num(5)>>, <<<<"E", "n", "d", " ", "o", "f", " ", "S", "a", "l", "e">>, Str(<<"2", "0", "2", "0", "-", "0", "1", "-", "0", "1">>)>>,
           <<<<"C", "o", "v", "e", "r", "a", "g", "e">>, Str(<<"C", "o", "v", "e", "r", "e", "d">>)>> >>),
    Row(<< <<<<"V", "e", "n", "d", "o", "r">>, Str(<<"c", "o", "n", "s", "t", "r", "u", "c", "t", "o", "r">>)>>, <<<<"c", "a", "t", "e", "g", "o", "r", "y">>, Num(7)>>,
           <<<<"q", "u", "a", "n", "t", "i", "t", "y">>, Str(<<"-", "5">>)>>, <<<<"E", "O", "S">>, Str(<<"2", "0", "9", "9", "-", "0", "1", "-", "0", "1">>)>>,
           <<<<"L", "a", "s", "t", " ", "S", "u", "p", "p", "o", "r", "t">>, Str(<<"2", "0", "2", "0", "-", "0", "1", "-", "0", "1">>)>> >>),
    Row(<< <<<<"m", "f", "g">>, Str(<<"-">>)>>, <<<<"C", "a", "t", "e", "g", "o", "r", "y">>, Str(<<"7">>)>>, <<<<"q", "t", "y">>, Num(3)>>,
           <<<<"e", "n", "d", " ", "o", "f", " ", "s", "a", "l", "e">>, Str(<<"T", "B", "D">>)>>, <<<<"I", "D">>, Num(2)>> >>),
    Row(<<>>),
    NullRow,
    Row(<< <<<<"S", "e", "r", "i", "a", "l", "#">>, Str(<<"A", "1">>)>>, <<<<"s", "e", "r", "i", "a", "l">>, Str(<<"B", "2">>)>>, <<<<"M", "f", "g">>, Str(<<"C", "i", "s", "c", "o">>)>> >>),
    Row(<< <<<<"Q", "t", "y", "#">>, Str(<<"x", "9">>)>>, <<<<"C", "a", "t", "e", "g", "o", "r", "y">>, Str(<<"R", "o", "u", "t", "e", "r">>)>>,
           <<<<"E", "n", "d", " ", "o", "f", " ", "S", "a", "l", "e">>, Str(<<"2", "0", "2", "0", "-", "0", "1", "-", "0", "1">>)>>, <<<<"A", "s", "s", "e", "t", " ", "T", "a", "g">>, Str(<<"T", "-", "1">>)>> >>),
    Row(<< <<<<"_", "_", "p", "r", "o", "t", "o", "_", "_">>, Str(<<"p">>)>>, <<<<"C", "a", "t", "e", "g", "o", "r", "y">>, Str(<<"c", "o", "n", "s", "t", "r", "u", "c", "t", "o", "r">>)>>,
           <<<<"Q", "t", "y">>, Str(<<"2">>)>>, <<<<"S", "u", "p", "p", "o", "r", "t", " ", "S", "t", "a", "t", "u", "s">>, Bool(FALSE)>> >>),
    Row(<< <<<<"C", "a", "t", "e", "g", "o", "r", "y">>, Str(<<"R", "o", "u", "t", "e", "r">>)>>,
           <<<<"E", "n", "d", " ", "o", "f", " ", "V", "u", "l", "n", "e", "r", "a", "b", "i", "l", "i", "t", "y", "/", "S", "e", "c", "u", "r", "i", "t", "y", " ", "S", "u", "p", "p", "o", "r", "t">>, Str(<<"2", "0", "2", "0", "-", "0", "1", "-", "0", "1">>)>>,
           <<<<"C", "o", "v", "e", "r", "a", "g", "e">>, Str(<<"E", "x", "p", "i", "r", "e", "d", " ", "-", " ", "N", "o", " ", "R", "e", "n", "e", "w", "a", "l">>)>>, <<<<"Q", "t", "y">>, Str(<<"$", "1", ",", "2", "0", "0">>)>>,
           <<<<"E", "n", "d", " ", "o", "f", " ", "S", "u", "p", "p", "o", "r", "t">>, Str(<<"2", "0", "9", "9", "-", "0", "1", "-", "0", "1">>)>> >>),
    Row(<< <<<<"I", "D">>, Num(1)>>, <<<<"B", "r", "a", "n", "d">>, Num(7)>>, <<<<"B", "u", "s", "i", "n", "e", "s", "s", " ", "E", "n", "t", "i", "t", "y">>, Str(<<"-">>)>>,
           <<<<"U", "n", "i", "t", "s">>, Num(0 - 2)>>, <<<<"P", "r", "o", "d", "u", "c", "t", " ", "I", "D">>, Str(<<"N", "/", "A">>)>>,
           <<<<"D", "e", "s", "c", "r", "i", "p", "t", "i", "o", "n">>, Str(<<"S", "w", "i", "t", "c", "h">>)>>, <<<<"A", "s", "s", "e", "t", " ", "T", "y", "p", "e">>, Str(<<"H", "W">>)>>,
           <<<<"S", "h", "i", "p", " ", "D", "a", "t", "e">>, Str(<<"2", "0", "1", "9", "-", "1", "2", "-", "3", "1">>)>>, <<<<"E", "O", "S", "L">>, Num(0)>> >>),
    Row(<< <<<<"M", "a", "k", "e">>, Str(<<"C", "i", "s", "c", "o">>)>>, <<<<"C", "a", "t", "e", "g", "o", "r", "y">>, Str(<<"U", "n", "c", "a", "t", "e", "g", "o", "r", "i", "z", "e", "d">>)>>,
           <<<<"C", "o", "u", "n", "t">>, Str(<<"4">>)>>, <<<<"S", "t", "a", "t", "u", "s">>, Str(<<"o", "k">>)>>, <<<<"s", "t", "a", "t", "u", "s", " ">>, Str(<<"l", "a", "t", "e">>)>>,
           <<<<"c", "o", "v", "e", "r", "a", "g", "e">>, Num(0)>> >>),
    Row(<< <<<<"S", "u", "p", "p", "l", "i", "e", "r">>, Str(<<"U", "n", "k", "n", "o", "w", "n">>)>>, <<<<"P", "r", "o", "d", "u", "c", "t", " ", "C", "a", "t", "e", "g", "o", "r", "y">>, Str(<<>>)>>,
           <<<<"A", "m", "o", "u", "n", "t">>, Str(<<"7", " ", "p", "c", "s">>)>>, <<<<"S", "h", "i", "p", " ", " ", "D", "a", "t", "e">>, Str(<<"N", "/", "A">>)>>,
           <<<<"E", "n", "d", " ", "o", "f", " ", "S", "a", "l", "e">>, Str(<<"2", "0", "2", "0", "-", "0", "1", "-", "0", "1">>)>> >>) }

\* The parsed files: the sequences of at most n rows of the pool.
RECURSIVE RowSeqs(_)
RowSeqs(n) ==
  IF n = 0 THEN {<<>>}
  ELSE RowSeqs(n - 1) \cup
       {Append(s, r) : s \in {p \in RowSeqs(n - 1) : Len(p) = n - 1}, r \in RowPool}

\* The values of `new Date()` at an upload, as UTC days.
Times == {20191231, 20200101, 20240101}

NoFile == [hasFile |-> FALSE, filename |-> "", rows |-> <<>>, customerName |-> Undefined]

Requests ==
  {NoFile} \cup
  [hasFile : {TRUE}, filename : {"inventory.csv"}, rows : RowSeqs(MaxRows),
   customerName : {Undefined, Str(<<"A", "c", "m", "e">>)}]

\* The strings of at most n characters of the alphabet.
RECURSIVE StringsUpTo(_, _)
StringsUpTo(alphabet, n) ==
  IF n = 0 THEN {<<>>}
  ELSE StringsUpTo(alphabet, n - 1) \cup
       {Append(s, c) : s \in {p \in StringsUpTo(alphabet, n - 1) : Len(p) = n - 1},
                       c \in alphabet}

\* The scalars a cell can hold: strings, numbers, booleans, null, absent.
ScalarInputs ==
  {Str(s) : s \in StringsUpTo({"n", "o", "y", "0", "1", "5", "-", " ", "$", ","}, MaxStrLen)}
  \cup {Str(s) : s \in {<<"N", "/", "A">>, <<"n", "/", "a">>, <<"C", "o", "v", "e", "r", "e", "d">>, <<"N", "o", "t", " ", "C", "o", "v", "e", "r", "e", "d">>, <<"A", "C", "T", "I", "V", "E">>, <<" ", "a", "c", "t", "i", "v", "e", " ">>,
                        <<"Y", "e", "s">>, <<"E", "x", "p", "i", "r", "e", "d", " ", "-", " ", "N", "o", " ", "R", "e", "n", "e", "w", "a", "l">>, <<"P", "e", "n", "d", "i", "n", "g", " ", "R", "e", "v", "i", "e", "w">>, <<"n", "o", "n", "e">>,
                        <<"t", "r", "u", "e">>, <<"f", "a", "l", "s", "e">>, <<"T", "r", "u", "e">>, <<"F", "A", "L", "S", "E">>, <<"U", "n", "k", "n", "o", "w", "n">>, <<".">>, <<"?">>,
                        <<"v", "a", "l", "i", "d">>, <<"C", "u", "r", "r", "e", "n", "t">>, <<"U", "n", "d", "e", "r", " ", "M", "a", "i", "n", "t", "e", "n", "a", "n", "c", "e">>, <<"N", "o", " ", "C", "o", "v", "e", "r", "a", "g", "e">>,
                        <<"$", "1", ",", "2", "3", "4">>, <<"1", "2", "a", "b", "c">>, <<"a", "b", "c">>, <<" ", "7", " ">>, <<"$", "-", "3">>, <<"-", "1", "2">>}}
  \cup {Num(0), Num(1), Num(5), Num(0 - 5), Num(12), NaNValue,
        Bool(TRUE), Bool(FALSE), Null, Undefined}

\* The values given to formatDate.
DateInputs ==
  {Str(s) : s \in {<<>>, <<"-">>, <<"N", "/", "A">>, <<"n", "/", "a">>, <<"T", "B", "D">>, <<"u", "n", "k", "n", "o", "w", "n">>, <<"2", "0", "2", "0", "-", "0", "1", "-", "0", "1">>,
                   <<"2", "0", "1", "9", "-", "1", "2", "-", "3", "1">>, <<"2", "0", "9", "9", "-", "0", "1", "-", "0", "1">>, <<"2", "0", "2", "4", "-", "0", "2", "-", "2", "9">>,
                   <<"R", "o", "u", "t", "e", "r">>}}
  \cup {Num(0), Num(1), Num(86399999), Num(0 - 1), NaNValue,
        Bool(TRUE), Bool(FALSE), Null, Undefined}

\* The headers under which a single-column row carries a scalar.
HeaderInputs ==
  {<<"Q", "t", "y">>, <<" ", "Q", "U", "A", "N", "T", "I", "T", "Y", " ">>, <<"Q", "t", "y", "#">>, <<"C", "o", "v", "e", "r", "a", "g", "e">>, <<"S", "u", "p", "p", "o", "r", "t", " ", " ", "S", "t", "a", "t", "u", "s">>, <<"S", "e", "r", "i", "a", "l", "#">>,
   <<"s", "e", "r", "i", "a", "l">>, <<"A", "s", "s", "e", "t", " ", "T", "a", "g">>, <<"_", "_", "p", "r", "o", "t", "o", "_", "_">>, <<"T", "o", "t", "a", "l", " ", "V", "a", "l", "u", "e">>}

\* The headers of a two-column row: an object has no key twice.
HeaderPairs == {hs \in HeaderInputs \X HeaderInputs : hs[1] # hs[2]}

\* The cells of the two-column rows.
PairValues == {Str(<<"A", "1">>), Str(<<"B", "2">>), Num(7)}

\* Every synonym of a canonical field.
Synonyms ==
  UNION {Range(COLUMN_MAPPINGS[i].variations) : i \in 1..Len(COLUMN_MAPPINGS)}

\* The headers a file can spell a synonym with: as listed, in upper case,
\* and each of the two with white space around it.
SynonymHeaders ==
  UNION {{s, ToUpperCase(s), <<" ">> \o s \o <<" ">>, <<" ">> \o ToUpperCase(s) \o <<"\t">>} :
           s \in Synonyms}

\* Rows with and without an id column, for processData.
IdRowPool ==
  { Row(<< <<<<"I", "D">>, Num(0)>>, <<<<"M", "f", "g">>, Str(<<"C", "i", "s", "c", "o">>)>> >>),
    Row(<< <<<<"I", "D">>, Num(2)>>, <<<<"m", "f", "g">>, Str(<<"-">>)>> >>),
    Row(<< <<<<"M", "a", "n", "u", "f", "a", "c", "t", "u", "r", "e", "r">>, Str(<<"C", "i", "s", "c", "o">>)>> >>),
    Row(<< <<<<"I", ".", "D", ".">>, Str(<<"A", "7">>)>>, <<<<"Q", "t", "y">>, Num(3)>> >>),
    Row(<< <<<<"i", "d">>, Str(<<>>)>> >>),
    NullRow }

\* The sequences of at most n rows of a pool.
RECURSIVE RowSeqsOf(_, _)
RowSeqsOf(pool, n) ==
  IF n = 0 THEN {<<>>}
  ELSE RowSeqsOf(pool, n - 1) \cup
       {Append(s, r) : s \in {p \in RowSeqsOf(pool, n - 1) : Len(p) = n - 1}, r \in pool}

\* The status cells of the rows given to the built-in processData.
StatusInputs ==
  {Str(s) : s \in {<<>>, <<"-">>, <<".">>, <<"?">>, <<"0">>, <<"A", "C", "T", "I", "V", "E">>, <<"A", "c", "t", "i", "v", "e">>, <<" ", "c", "o", "v", "e", "r", "e", "d", " ">>,
                   <<"C", "O", "V", "E", "R", "E", "D">>, <<"N", "o", "t", " ", "C", "o", "v", "e", "r", "e", "d">>, <<"Y", "e", "s">>, <<"U", "n", "k", "n", "o", "w", "n">>, <<"E", "x", "p", "i", "r", "e", "d">>, <<" ", "-", " ">>}}
  \cup {Num(0), Num(1), Bool(TRUE), Bool(FALSE), Null, Undefined}

\* A row with the two columns the built-in scheme consults (a column whose
\* cell is absent is left out of the row).
StatusRow(status, coverage) ==
  Row((IF status = Undefined THEN <<>> ELSE << <<<<"C", "o", "v", "e", "r", "e", "d", " ", "L", "i", "n", "e", " ", "S", "t", "a", "t", "u", "s">>, status>> >>)
      \o (IF coverage = Undefined THEN <<>> ELSE << <<<<"C", "o", "v", "e", "r", "a", "g", "e">>, coverage>> >>))

(***************************************************************************)
(* The upload of one file, from the request to the stored job              *)
(***************************************************************************)
NoCall == [fn |-> "", arg |-> Undefined, ret |-> Undefined]

Unsent == [sent |-> FALSE, request |-> NoFile]

\* uuidv4(), the job id of an upload: a fresh id at every call, given here
\* by the number of ids generated so far.
JobIds == <<<<"j", "o", "b", "-", "1">>, <<"j", "o", "b", "-", "2">>, <<"j", "o", "b", "-", "3">>, <<"j", "o", "b", "-", "4">>>>

\* A faulty variant of NewJobId: every upload gets the same id.
SameJobId(generated) == JobIds[1]

NewJobId(generated) == JobIds[generated + 1]

Init ==
  /\ req = Unsent
  /\ jobStorage = EmptyObject
  /\ res = NoResponse
  /\ now \in Times
  /\ call = NoCall
  /\ objectPrototype = EmptyObject
  /\ clock = 0
  /\ uploads = <<>>

\* The body of uploadFile(req, res), with the decoder's rows as request.rows.
\* uploads is the log of the requests that got a job id, with their times.
uploadFile(request) ==
  /\ req' = [sent |-> TRUE, request |-> request]
  /\ IF ~request.hasFile
       THEN /\ res' = Response(400, "No file uploaded", NoJob, 0)
            /\ UNCHANGED <<jobStorage, objectPrototype, uploads>>
     ELSE /\ uploads' = Append(uploads, [request |-> request, minute |-> clock])
          /\ IF AnalyticsThrows(request.rows)
               THEN /\ res' = Response(500, "Failed to parse file", NoJob, 0)
                    /\ UNCHANGED <<jobStorage, objectPrototype>>
             ELSE /\ jobStorage' =
                       WithProperty(jobStorage, NewJobId(Len(uploads)),
                                    Job(NewJobId(Len(uploads)), request, now))
                  /\ objectPrototype' = PrototypeAfterAnalytics(processData(request.rows))
                  /\ res' = Response(200, "", NewJobId(Len(uploads)), Len(request.rows))
  /\ call' = NoCall
  /\ UNCHANGED <<now, clock>>

\* One upload.
UploadFile(request) ==
  /\ ~req.sent
  /\ uploadFile(request)

Next == \E request \in Requests : UploadFile(request)

Spec == Init /\ [][Next]_vars

(***************************************************************************)
(* The functions of the column mapper and the built-in processData, each   *)
(* applied once to an input                                                *)
(***************************************************************************)
CallNormalizeSupport(value) ==
  /\ call = NoCall
  /\ call' = [fn |-> "normalizeSupport", arg |-> value, ret |-> normalizeSupport(value)]
  /\ UNCHANGED <<req, jobStorage, res, now, objectPrototype, clock, uploads>>

CallNormalizeNumber(value) ==
  /\ call = NoCall
  /\ call' = [fn |-> "normalizeNumber", arg |-> value, ret |-> normalizeNumber(value)]
  /\ UNCHANGED <<req, jobStorage, res, now, objectPrototype, clock, uploads>>

CallFormatDate(value) ==
  /\ call = NoCall
  /\ call' = [fn |-> "formatDate", arg |-> value, ret |-> formatDate(value)]
  /\ UNCHANGED <<req, jobStorage, res, now, objectPrototype, clock, uploads>>

CallNormalizeRow(row) ==
  /\ call = NoCall
  /\ call' = [fn |-> "normalizeRow", arg |-> row, ret |-> normalizeRow(row)]
  /\ UNCHANGED <<req, jobStorage, res, now, objectPrototype, clock, uploads>>

CallBuiltinProcessData(data) ==
  /\ call = NoCall
  /\ ~builtinProcessDataThrows(data)
  /\ call' = [fn |-> "builtinProcessData", arg |-> data, ret |-> builtinProcessData(data)]
  /\ UNCHANGED <<req, jobStorage, res, now, objectPrototype, clock, uploads>>

CallProcessData(data) ==
  /\ call = NoCall
  /\ call' = [fn |-> "processData", arg |-> data, ret |-> processData(data)]
  /\ UNCHANGED <<req, jobStorage, res, now, objectPrototype, clock, uploads>>

CallGetColumnMapping(data) ==
  /\ call = NoCall
  /\ ~getColumnMappingThrows(data)
  /\ call' = [fn |-> "getColumnMapping", arg |-> data, ret |-> getColumnMapping(data)]
  /\ UNCHANGED <<req, jobStorage, res, now, objectPrototype, clock, uploads>>

NextPure ==
  \/ \E value \in ScalarInputs : CallNormalizeSupport(value)
  \/ \E value \in ScalarInputs : CallNormalizeNumber(value)
  \/ \E value \in DateInputs : CallFormatDate(value)
  \/ \E header \in HeaderInputs, value \in ScalarInputs :
        CallNormalizeRow(Row(<< <<header, value>> >>))
  \/ \E hs \in HeaderPairs, v1 \in PairValues, v2 \in PairValues :
        CallNormalizeRow(Row(<< <<hs[1], v1>>, <<hs[2], v2>> >>))
  \/ \E status \in StatusInputs, coverage \in StatusInputs :
        CallBuiltinProcessData(<<StatusRow(status, coverage)>>)
  \/ \E header \in SynonymHeaders : CallNormalizeRow(Row(<< <<header, Str(<<"A", "c", "m", "e">>)>> >>))
  \/ \E data \in RowSeqsOf(IdRowPool, MaxRows) : CallProcessData(data)
  \/ \E header \in SynonymHeaders \cup HeaderInputs \cup {<<"c", "o", "n", "s", "t", "r", "u", "c", "t", "o", "r">>} :
        CallGetColumnMapping(<<Row(<< <<header, Str(<<"A", "c", "m", "e">>)>> >>), Row(<<>>)>>)
  \/ CallGetColumnMapping(<<>>)

SpecPure == Init /\ [][NextPure]_vars

(***************************************************************************)
(* The service: uploads, the three lookup handlers and the sweep of old    *)
(* jobs, interleaved, while the clock advances                             *)
(***************************************************************************)

\* The uploads a run of the service receives.
MaxUploads == 2

\* The timer periods a run of the service lasts.
MaxTicks == 3

\* setInterval(cleanupOldJobs, 30 * 60 * 1000), in minutes
TimerPeriod == 30

\* Date.now() - 60 * 60 * 1000, in minutes
OneHour == 60

\* The parsed files the service is sent.
ServiceFiles ==
  { << Row(<< <<<<"C", "a", "t", "e", "g", "o", "r", "y">>, Str(<<"c", "o", "u", "n", "t">>)>>, <<<<"Q", "t", "y">>, Num(2)>> >>),
       Row(<< <<<<"C", "a", "t", "e", "g", "o", "r", "y">>, Str(<<"_", "_", "p", "r", "o", "t", "o", "_", "_">>)>>, <<<<"Q", "t", "y">>, Num(1)>>,
              <<<<"C", "o", "v", "e", "r", "a", "g", "e">>, Str(<<"C", "o", "v", "e", "r", "e", "d">>)>> >>),
       Row(<< <<<<"M", "f", "g">>, Str(<<"C", "i", "s", "c", "o">>)>>, <<<<"C", "a", "t", "e", "g", "o", "r", "y">>, Str(<<"R", "o", "u", "t", "e", "r">>)>>, <<<<"Q", "t", "y">>, Num(5)>>,
              <<<<"E", "n", "d", " ", "o", "f", " ", "S", "a", "l", "e">>, Str(<<"2", "0", "2", "0", "-", "0", "1", "-", "0", "1">>)>> >>) >>,
    <<>> }

\* The requests the service is sent, each with a file.
ServiceRequests ==
  [hasFile : {TRUE}, filename : {"inventory.csv"}, rows : ServiceFiles,
   customerName : {Str(<<"A", "c", "m", "e">>)}]

\* The :jobId of a lookup: the ids uuidv4 gives, and names that are no job.
LookupIds == {JobIds[i] : i \in 1..MaxUploads} \cup {<<"c", "o", "n", "s", "t", "r", "u", "c", "t", "o", "r">>}

\* req.query: limit and offset, each absent or the text of the query
Queries ==
  { [limit |-> Undefined, offset |-> Undefined],
    [limit |-> Str(<<"1">>), offset |-> Str(<<"1">>)],
    [limit |-> Str(<<"5">>), offset |-> Str(<<"-", "1">>)],
    [limit |-> Str(<<"-", "1">>), offset |-> Undefined],
    [limit |-> Str(<<"1">>), offset |-> Str(<<"5">>)] }

\* req.query.format
Formats == {Undefined, Str(<<"x", "l", "s", "x">>)}

\* jobStorage[jobId]: the job, an inherited value, or nothing.  `!job` is
\* false for an inherited value that is truthy.
HasJob(jobId) == jobId \in DOMAIN jobStorage

InheritsJob(jobId) == ~HasJob(jobId) /\ InheritedTruthy(objectPrototype, jobId)

Reply(status, error, body) == [status |-> status, error |-> error, body |-> body]

JobNotFound == Reply(404, "Job not found", <<>>)

\* The handler threw outside any try: the async function's promise is
\* rejected and the handler writes no response.
Threw == Reply(0, "TypeError", <<>>)

\* getJobStatus: an inherited value has no summary, and reading
\* job.summary.active_support throws.
getJobStatus(jobId) ==
  IF HasJob(jobId)
    THEN Reply(200, "",
               [status |-> jobStorage[jobId].status,
                job_id |-> jobId,
                customer_name |-> jobStorage[jobId].customerName,
                filename |-> jobStorage[jobId].filename,
                rows_processed |-> jobStorage[jobId].rows_processed,
                timestamp |-> jobStorage[jobId].timestamp,
                findings |-> <<jobStorage[jobId].rows_processed,
                               jobStorage[jobId].summary.active_support,
                               jobStorage[jobId].summary.expired_support>>])
  ELSE IF InheritsJob(jobId) THEN Threw
  ELSE JobNotFound

Min(a, b) == IF a < b THEN a ELSE b

Max(a, b) == IF a > b THEN a ELSE b

\* The index Array.prototype.slice makes of an argument: a negative one
\* counts from the end, and both are kept within 0..length.
SliceIndex(k, length) == IF k < 0 THEN Max(length + k, 0) ELSE Min(k, length)

\* array.slice(start, end)
Slice(array, start, end) ==
  SubSeq(array, SliceIndex(start, Len(array)) + 1, SliceIndex(end, Len(array)))

\* parseInt(req.query.limit) || job.data.length
LimitOf(limit, length) ==
  IF ParseInt(limit).nan \/ ParseInt(limit).n = 0 THEN length ELSE ParseInt(limit).n

\* The answer of getResults for a stored job.
Results(job, limit, offset) ==
  Reply(200, "",
        [products |-> Slice(job.data, offset, offset + limit),
         summary |-> job.summary,
         pagination |-> [total |-> Len(job.data), limit |-> limit, offset |-> offset]])

\* getResults: an inherited value has no data, and job.data.length or
\* job.data.slice throws.
getResults(jobId, limit, offset) ==
  IF HasJob(jobId)
    THEN Results(jobStorage[jobId], LimitOf(limit, Len(jobStorage[jobId].data)),
                 ParseIntOrZero(offset))
  ELSE IF InheritsJob(jobId) THEN Threw
  ELSE JobNotFound

\* exportResults: the rows of the job in the format asked for (csv when
\* none is); for an inherited value the encoder or job.customerName.replace
\* throws inside the try, and the catch answers 500.
exportResults(jobId, format) ==
  IF HasJob(jobId)
    THEN Reply(200, "",
               [format |-> IF Or(format, Str(<<"c", "s", "v">>)) \in {Str(<<"e", "x", "c", "e", "l">>), Str(<<"x", "l", "s", "x">>)}
                             THEN "xlsx" ELSE "csv",
                rows |-> jobStorage[jobId].data])
  ELSE IF InheritsJob(jobId) THEN Reply(500, "Export failed", <<>>)
  ELSE JobNotFound

\* jobStorage[jobId].timestamp < oneHourAgo
IsOld(timestamp, minute) == timestamp.minute < minute - OneHour

\* cleanupOldJobs: every own key whose job is old is deleted.
cleanupOldJobs(storage, minute) ==
  [jobId \in {id \in DOMAIN storage : ~IsOld(storage[id].timestamp, minute)} |-> storage[jobId]]

\* An upload to the running service.
Upload(request) ==
  /\ Len(uploads) < MaxUploads
  /\ uploadFile(request)

GetJobStatus(jobId) ==
  /\ call' = [fn |-> "getJobStatus", arg |-> [jobId |-> jobId], ret |-> getJobStatus(jobId)]
  /\ UNCHANGED <<req, jobStorage, res, now, objectPrototype, clock, uploads>>

GetResults(jobId, limit, offset) ==
  /\ call' = [fn |-> "getResults",
              arg |-> [jobId |-> jobId, limit |-> limit, offset |-> offset],
              ret |-> getResults(jobId, limit, offset)]
  /\ UNCHANGED <<req, jobStorage, res, now, objectPrototype, clock, uploads>>

ExportResults(jobId, format) ==
  /\ call' = [fn |-> "exportResults", arg |-> [jobId |-> jobId, format |-> format],
              ret |-> exportResults(jobId, format)]
  /\ UNCHANGED <<req, jobStorage, res, now, objectPrototype, clock, uploads>>

\* The timer fires.
CleanupOldJobs ==
  /\ jobStorage' = cleanupOldJobs(jobStorage, clock)
  /\ call' = [fn |-> "cleanupOldJobs", arg |-> [minute |-> clock], ret |-> Undefined]
  /\ UNCHANGED <<req, res, now, objectPrototype, clock, uploads>>

\* A timer period passes.
Tick ==
  /\ clock < MaxTicks * TimerPeriod
  /\ clock' = clock + TimerPeriod
  /\ call' = NoCall
  /\ UNCHANGED <<req, jobStorage, res, now, objectPrototype, uploads>>

NextService ==
  \/ \E request \in ServiceRequests : Upload(request)
  \/ \E jobId \in LookupIds : GetJobStatus(jobId)
  \/ \E jobId \in LookupIds, query \in Queries :
        GetResults(jobId, query.limit, query.offset)
  \/ \E jobId \in LookupIds, format \in Formats : ExportResults(jobId, format)
  \/ CleanupOldJobs
  \/ Tick

\* The service starts on one of the days.
InitService == Init /\ now = 20240101

SpecService == InitService /\ [][NextService]_vars

(***************************************************************************)
(* Properties.  The ones about a stored job are stated of Spec, the ones   *)
(* about a single function of SpecPure.                                    *)
(***************************************************************************)

\* An upload has stored its job.
Stored == jobStorage # <<>>

StoredJob == jobStorage[<<"j", "o", "b", "-", "1">>]

\* The sum of a field over the groups of a breakdown.
RECURSIVE SumField(_, _, _)
SumField(breakdown, keys, field) ==
  IF keys = {} THEN 0
  ELSE LET k == CHOOSE key \in keys : TRUE
       IN breakdown[k][field] + SumField(breakdown, keys \ {k}, field)

Conserves(breakdown, summary) ==
  /\ SumField(breakdown, DOMAIN breakdown, "count") = summary.total_items
  /\ SumField(breakdown, DOMAIN breakdown, "quantity") = summary.total_quantity

\* C1: in every stored job, for manufacturerBreakdown and for
\* categoryBreakdown, the per-group counts sum to total_items and the
\* per-group quantities sum to total_quantity.
C1_BreakdownsConserveTotals ==
  Stored =>
    /\ Conserves(StoredJob.summary.manufacturerBreakdown, StoredJob.summary)
    /\ Conserves(StoredJob.summary.categoryBreakdown, StoredJob.summary)

\* C2: in every stored job, every value of fieldCompleteness is an integer
\* in 0..100, and it is 0 (not NaN) when the job has no record.
C2_FieldCompletenessIsPercent ==
  Stored =>
    \A field \in DOMAIN StoredJob.summary.fieldCompleteness :
      LET pct == StoredJob.summary.fieldCompleteness[field]
      IN /\ ~pct.nan
         /\ pct.n \in 0..100
         /\ (Len(StoredJob.data) = 0 => pct.n = 0)

IsPositiveInteger(x) == x.t = "num" /\ x.v # <<"N", "a", "N">> /\ ParseInt(x).n > 0

RecordId(item) == Get(item.obj, <<"i", "d">>)

\* C3: in the records processData returned for a stored job, every id is a
\* positive integer and no two records have the same id, whether the rows
\* supplied an id or not.
C3_IdsPositiveAndUnique ==
  Stored =>
    /\ \A i \in 1..Len(StoredJob.data) : IsPositiveInteger(RecordId(StoredJob.data[i]))
    /\ \A i, j \in 1..Len(StoredJob.data) :
         i # j => RecordId(StoredJob.data[i]) # RecordId(StoredJob.data[j])

CanonicalFields ==
  {<<"i", "d">>, <<"m", "f", "g">>, <<"c", "a", "t", "e", "g", "o", "r", "y">>, <<"a", "s", "s", "e", "t", "_", "t", "y", "p", "e">>, <<"t", "y", "p", "e">>, <<"p", "r", "o", "d", "u", "c", "t", "_", "i", "d">>, <<"d", "e", "s", "c", "r", "i", "p", "t", "i", "o", "n">>,
   <<"s", "h", "i", "p", "_", "d", "a", "t", "e">>, <<"q", "t", "y">>, <<"t", "o", "t", "a", "l", "_", "v", "a", "l", "u", "e">>, <<"s", "u", "p", "p", "o", "r", "t", "_", "c", "o", "v", "e", "r", "a", "g", "e">>, <<"e", "n", "d", "_", "o", "f", "_", "s", "a", "l", "e">>,
   <<"l", "a", "s", "t", "_", "d", "a", "y", "_", "s", "u", "p", "p", "o", "r", "t">>}

\* C4: every record processData returned for a stored job has every field
\* of the canonical field set, whatever columns the raw row had.
C4_EveryCanonicalFieldPopulated ==
  Stored =>
    \A i \in 1..Len(StoredJob.data) :
      \A field \in CanonicalFields : field \in DOMAIN StoredJob.data[i].obj

HasNullRow(rows) == \E i \in 1..Len(rows) : rows[i].isNull

Slug(header) == StripNonSlug(ReplaceSpaceRuns(Trim(ToLowerCase(header))))

\* The header is a synonym of no canonical field.
Unmapped(header) == Trim(ToLowerCase(header)) \notin Synonyms

CoercedFields ==
  {<<"s", "u", "p", "p", "o", "r", "t", "_", "c", "o", "v", "e", "r", "a", "g", "e">>, <<"s", "h", "i", "p", "_", "d", "a", "t", "e">>, <<"e", "n", "d", "_", "o", "f", "_", "s", "a", "l", "e">>, <<"l", "a", "s", "t", "_", "d", "a", "y", "_", "s", "u", "p", "p", "o", "r", "t">>, <<"q", "t", "y">>,
   <<"t", "o", "t", "a", "l", "_", "v", "a", "l", "u", "e">>}

NormalizeRowCalled == call.fn = "normalizeRow"

NoQtyColumn(row) ==
  \A i \in 1..Len(row.cols) : Unmapped(row.cols[i][1]) /\ Slug(row.cols[i][1]) # <<"q", "t", "y">>

\* C7: the qty of every record normalizeRow returns is a non-negative
\* number, and it is 0 when the row has no quantity.
C7_QtyNonNegative ==
  NormalizeRowCalled =>
    LET qty == Get(call.ret, <<"q", "t", "y">>)
    IN /\ qty.t = "num"
       /\ qty.v # <<"N", "a", "N">>
       /\ ParseInt(qty).n >= 0
       /\ (NoQtyColumn(call.arg) => qty = Num(0))

ActiveWords == {<<"c", "o", "v", "e", "r", "e", "d">>, <<"a", "c", "t", "i", "v", "e">>, <<"y", "e", "s">>, <<"v", "a", "l", "i", "d">>, <<"c", "u", "r", "r", "e", "n", "t">>, <<"m", "a", "i", "n", "t", "e", "n", "a", "n", "c", "e">>}

ExpiredWords == {<<"n", "o", "t", " ", "c", "o", "v", "e", "r", "e", "d">>, <<"n", "o", " ", "c", "o", "v", "e", "r", "a", "g", "e">>, <<"e", "x", "p", "i", "r", "e", "d">>, <<"n", "o", "n", "e">>, <<"n", "o">>}

\* The lenient scheme as it is specified, on the text of the value.
SpecifiedSupport(value) ==
  LET text == Trim(ToLowerCase(value.v))
  IN IF value \in {Str(<<>>), Str(<<"-">>), Str(<<"N", "/", "A">>), Str(<<"n", "/", "a">>), Undefined, Null}
       THEN Str(<<"-">>)
     ELSE IF (\E w \in ActiveWords : Includes(text, w)) \/ text \in {<<"y">>, <<"1">>, <<"t", "r", "u", "e">>}
       THEN Str(<<"A", "c", "t", "i", "v", "e">>)
     ELSE IF (\E w \in ExpiredWords : Includes(text, w)) \/ text \in {<<"n">>, <<"0">>, <<"f", "a", "l", "s", "e">>}
       THEN Str(<<"E", "x", "p", "i", "r", "e", "d">>)
     ELSE value

\* C8: normalizeSupport gives '-' for the sentinels, else 'Active' for the
\* active vocabulary and y/1/true, else 'Expired' for the expired vocabulary
\* and n/0/false (the number 0 and the boolean false included), else its
\* input unchanged.
C8_LenientSupportAsSpecified ==
  call.fn = "normalizeSupport" => call.ret = SpecifiedSupport(call.arg)

\* The cell of a raw row under a header, undefined when the row has none.
Cell(row, header) == Get(RowObject(row), header)

\* The status value the built-in scheme consults: Covered Line Status when
\* it is truthy, else Coverage.
Consulted(row) ==
  IF Truthy(Cell(row, <<"C", "o", "v", "e", "r", "e", "d", " ", "L", "i", "n", "e", " ", "S", "t", "a", "t", "u", "s">>)) THEN Cell(row, <<"C", "o", "v", "e", "r", "e", "d", " ", "L", "i", "n", "e", " ", "S", "t", "a", "t", "u", "s">>)
  ELSE Cell(row, <<"C", "o", "v", "e", "r", "a", "g", "e">>)

IsActiveText(value) ==
  Truthy(value) /\ ToUpperCase(Trim(value.v)) \in {<<"A", "C", "T", "I", "V", "E">>, <<"C", "O", "V", "E", "R", "E", "D">>}

BuiltinCalled == call.fn = "builtinProcessData"

\* C9: the support_coverage the built-in processData produces is 'Active'
\* or 'Expired', and it is 'Active' exactly when the consulted status value,
\* trimmed and uppercased, is ACTIVE or COVERED.
C9_StrictSupportIsActiveOrExpired ==
  BuiltinCalled =>
    \A i \in 1..Len(call.arg) :
      LET support == Get(call.ret[i].obj, <<"s", "u", "p", "p", "o", "r", "t", "_", "c", "o", "v", "e", "r", "a", "g", "e">>)
      IN /\ support \in {Str(<<"A", "c", "t", "i", "v", "e">>), Str(<<"E", "x", "p", "i", "r", "e", "d">>)}
         /\ (support = Str(<<"A", "c", "t", "i", "v", "e">>) <=> IsActiveText(Consulted(call.arg[i])))

\* C9, a case: the status cell ' covered ', with spaces around and in lower
\* case, gives 'Active'.
C9_PaddedCoveredCase ==
  /\ BuiltinCalled
  /\ Cell(call.arg[1], <<"C", "o", "v", "e", "r", "e", "d", " ", "L", "i", "n", "e", " ", "S", "t", "a", "t", "u", "s">>) = Str(<<" ", "c", "o", "v", "e", "r", "e", "d", " ">>)
  /\ Get(call.ret[1].obj, <<"s", "u", "p", "p", "o", "r", "t", "_", "c", "o", "v", "e", "r", "a", "g", "e">>) = Str(<<"A", "c", "t", "i", "v", "e">>)

\* The date is present, is not the sentinel, parses and is on or before day.
DueBy(value, day) ==
  /\ Truthy(value)
  /\ value # Str(<<"-">>)
  /\ NewDate(value).valid
  /\ NewDate(value).day <= day

\* The records of the data that are grouped under the category key.
InCategory(data, key) == {j \in 1..Len(data) : CategoryKey(data[j]) = key}

\* C10: in every stored job, for the category of every record,
\* lifecycleByCategory[category].endOfSale (lastDaySupport) is the number of
\* that category's records whose end_of_sale (last_day_support) is present,
\* not '-', a valid date and on or before now.
C10_LifecycleCountsPerCategory ==
  Stored =>
    \A i \in 1..Len(StoredJob.data) :
      LET key == CategoryKey(StoredJob.data[i])
          lifecycle == StoredJob.summary.lifecycleByCategory
      IN /\ key \in DOMAIN lifecycle
         /\ lifecycle[key].endOfSale =
              Cardinality({j \in InCategory(StoredJob.data, key) :
                             DueBy(Get(StoredJob.data[j].obj, <<"e", "n", "d", "_", "o", "f", "_", "s", "a", "l", "e">>), now)})
         /\ lifecycle[key].lastDaySupport =
              Cardinality({j \in InCategory(StoredJob.data, key) :
                             DueBy(Get(StoredJob.data[j].obj, <<"l", "a", "s", "t", "_", "d", "a", "y", "_", "s", "u", "p", "p", "o", "r", "t">>), now)})

ProcessDataCalled == call.fn = "processData"

\* The mapped record holds an id the row supplied: the key is there and its
\* value is not an empty cell.
SuppliesId(normalized) ==
  /\ <<"i", "d">> \in DOMAIN normalized
  /\ normalized[<<"i", "d">>] \notin {Str(<<>>), Null, Undefined}

\* C11: processData returns as many records as it was given rows; its i-th
\* record is the i-th row normalized (a null row is returned as it was);
\* a record with no id after mapping gets id = i (1-based), and a record
\* whose row supplied an id keeps the supplied value.
C11_OrderLengthAndIds ==
  ProcessDataCalled =>
    /\ Len(call.ret) = Len(call.arg)
    /\ \A i \in 1..Len(call.arg) :
         IF call.arg[i].isNull THEN call.ret[i].isNull
         ELSE /\ ~call.ret[i].isNull
              /\ call.ret[i].obj =
                   IF SuppliesId(normalizeRow(call.arg[i]))
                     THEN normalizeRow(call.arg[i])
                   ELSE SetProp(normalizeRow(call.arg[i]), <<"i", "d">>, Num(i))

\* The indices of the canonical fields that list the header as a synonym,
\* letter case and surrounding white space aside.
FieldsListing(header) ==
  {m \in 1..Len(COLUMN_MAPPINGS) :
     HasVariation(COLUMN_MAPPINGS[m].variations, Trim(ToLowerCase(header)))}

RECURSIVE Reverse(_)
Reverse(s) == IF s = <<>> THEN <<>> ELSE Append(Reverse(Tail(s)), Head(s))

ReversedMappings == Reverse(COLUMN_MAPPINGS)

\* No synonym is listed for two canonical fields.
SynonymListsDisjoint ==
  \A m1, m2 \in 1..Len(COLUMN_MAPPINGS) :
    m1 # m2 => Range(COLUMN_MAPPINGS[m1].variations)
                 \cap Range(COLUMN_MAPPINGS[m2].variations) = {}

\* C12: a header that is a synonym of the canonical field f, letter case and
\* surrounding white space aside, is stored by normalizeRow under f (with the
\* cell as its value when f is not a coerced field and no later column
\* resolves to f) and is mapped to f by getColumnMapping; no synonym is
\* listed for two fields, and the key is the same when the table is read in
\* the opposite order.
C12_SynonymsResolveToTheirField ==
  /\ SynonymListsDisjoint
  /\ NormalizeRowCalled =>
       \A i \in 1..Len(call.arg.cols) : \A m \in FieldsListing(call.arg.cols[i][1]) :
         /\ COLUMN_MAPPINGS[m].name \in DOMAIN call.ret
         /\ NormalizedKeyOfLower(ReversedMappings, Trim(ToLowerCase(call.arg.cols[i][1])))
              = COLUMN_MAPPINGS[m].name
         /\ ( /\ COLUMN_MAPPINGS[m].name \notin CoercedFields
              /\ \A j \in (i + 1)..Len(call.arg.cols) :
                   NormalizedKey(call.arg.cols[j][1]) # COLUMN_MAPPINGS[m].name )
            => call.ret[COLUMN_MAPPINGS[m].name] = call.arg.cols[i][2]
  /\ call.fn = "getColumnMapping" =>
       \A i \in 1..Len(call.arg) : i = 1 =>
         \A c \in 1..Len(call.arg[i].cols) : \A m \in FieldsListing(call.arg[i].cols[c][1]) :
           Get(call.ret, call.arg[i].cols[c][1]) = Str(COLUMN_MAPPINGS[m].name)

\* C12, a case: the header ' VENDOR ' with a tab after it; the record holds
\* the cell under mfg.
C12_PaddedUpperCaseVendorCase ==
  /\ NormalizeRowCalled
  /\ Len(call.arg.cols) = 1
  /\ call.arg.cols[1][1] = <<" ">> \o <<"V", "E", "N", "D", "O", "R">> \o <<"\t">>
  /\ Get(call.ret, <<"m", "f", "g">>) = call.arg.cols[1][2]

\* The cell is absent, empty or the sentinel '-'.
Unresolved(value) == value \in {Undefined, Null, Str(<<>>), Str(<<"-">>)}

\* The records whose group value is unresolved are counted under the
\* fallback group, no group is named '-' or '', and the groups' counts add
\* up to the number of records.
FoldsTo(breakdown, values, fallback) ==
  /\ <<"-">> \notin DOMAIN breakdown
  /\ <<>> \notin DOMAIN breakdown
  /\ (\E i \in 1..Len(values) : Unresolved(values[i]))
       => /\ fallback \in DOMAIN breakdown
          /\ breakdown[fallback].count >= Count([i \in 1..Len(values) |-> Unresolved(values[i])])
  /\ SumField(breakdown, DOMAIN breakdown, "count") = Len(values)

\* C16: in every stored job, the records whose manufacturer is absent, empty
\* or '-' are counted in manufacturerBreakdown under 'Unknown', the records
\* whose category is absent, empty or '-' are counted in categoryBreakdown
\* under 'Uncategorized', never under '-' or an empty key, and no record is
\* left out of either breakdown.
C16_UnresolvedKeysFold ==
  Stored =>
    /\ FoldsTo(StoredJob.summary.manufacturerBreakdown,
               [i \in 1..Len(StoredJob.data) |-> Get(StoredJob.data[i].obj, <<"m", "f", "g">>)],
               <<"U", "n", "k", "n", "o", "w", "n">>)
    /\ FoldsTo(StoredJob.summary.categoryBreakdown,
               [i \in 1..Len(StoredJob.data) |-> Get(StoredJob.data[i].obj, <<"c", "a", "t", "e", "g", "o", "r", "y">>)],
               <<"U", "n", "c", "a", "t", "e", "g", "o", "r", "i", "z", "e", "d">>)

\* The end-of-vulnerability/security-support date of a raw row.
RawVulnDate(row) ==
  Or(Cell(row, <<"E", "n", "d", " ", "o", "f", " ", "V", "u", "l", "n", "e", "r", "a", "b", "i", "l", "i", "t", "y", "/", "S", "e", "c", "u", "r", "i", "t", "y", " ", "S", "u", "p", "p", "o", "r", "t">>), Cell(row, <<"E", "n", "d", " ", "o", "f", " ", "S", "e", "c", "u", "r", "i", "t", "y", " ", "S", "u", "p", "p", "o", "r", "t">>))

\* C17: in every stored job, for the category of every record that has a
\* lifecycle entry, lifecycleByCategory[category].endOfSWVuln is the number
\* of that category's records whose raw row has, under the header 'End of
\* Vulnerability/Security Support' or 'End of Security Support', a date that
\* parses and is on or before now.
C17_VulnerabilityDatesCounted ==
  Stored =>
    \A i \in 1..Len(StoredJob.data) :
      LET key == CategoryKey(StoredJob.data[i])
      IN key \in DOMAIN StoredJob.summary.lifecycleByCategory
         => StoredJob.summary.lifecycleByCategory[key].endOfSWVuln =
              Cardinality({j \in InCategory(StoredJob.data, key) :
                             DueBy(RawVulnDate(req.request.rows[j]), now)})

\* C18: in every stored job, lifecycleByCategory has exactly the keys of
\* categoryBreakdown, for each key its total is the group's count and its
\* totalQty the group's quantity, and total_categories is the number of keys.
C18_LifecycleAgreesWithBreakdown ==
  Stored =>
    /\ DOMAIN StoredJob.summary.lifecycleByCategory = DOMAIN StoredJob.summary.categoryBreakdown
    /\ \A key \in DOMAIN StoredJob.summary.categoryBreakdown :
         /\ StoredJob.summary.lifecycleByCategory[key].total
              = StoredJob.summary.categoryBreakdown[key].count
         /\ StoredJob.summary.lifecycleByCategory[key].totalQty
              = StoredJob.summary.categoryBreakdown[key].quantity
    /\ StoredJob.summary.total_categories
         = Cardinality(DOMAIN StoredJob.summary.categoryBreakdown)

\* getResults has answered with the records of a stored job.
ResultsAnswered == call.fn = "getResults" /\ call.ret.status = 200

\* The records from position offset, kept within 0..length, up to at most
\* limit of them (none for a negative limit).
ClampedWindow(data, offset, limit) ==
  SubSeq(data, Max(0, Min(offset, Len(data))) + 1,
         Min(Len(data), Max(0, Min(offset, Len(data))) + Max(limit, 0)))

\* C13: when getResults answers for a stored job, the products are the
\* job's records from the offset clamped to 0..length, at most limit of
\* them: a negative offset is taken as 0 and a negative limit gives no
\* record.
C13_PaginationIsClamped ==
  ResultsAnswered =>
    call.ret.body.products =
      ClampedWindow(jobStorage[call.arg.jobId].data,
                    call.ret.body.pagination.offset, call.ret.body.pagination.limit)

\* The id of the i-th upload that got one, and whether its job was stored.
UploadId(i) == JobIds[i]

\* C14: two uploads of the same raw rows (the reference time is the same
\* throughout a run) have stored identical records and an identical summary,
\* whatever the uploads before them left behind.
C14_SameRowsSameResult ==
  \A i, j \in 1..Len(uploads) :
    ( /\ uploads[i].request.rows = uploads[j].request.rows
      /\ UploadId(i) \in DOMAIN jobStorage
      /\ UploadId(j) \in DOMAIN jobStorage )
    => /\ jobStorage[UploadId(i)].data = jobStorage[UploadId(j)].data
       /\ jobStorage[UploadId(i)].summary = jobStorage[UploadId(j)].summary

\* C14, a case: the same file uploaded twice, with a category named 'count'
\* and a category named '__proto__'; the first upload has added properties
\* to Object.prototype, and both jobs are stored.
C14_SecondUploadAfterPollutionCase ==
  /\ Len(uploads) = 2
  /\ uploads[1].request.rows = uploads[2].request.rows
  /\ UploadId(1) \in DOMAIN jobStorage
  /\ UploadId(2) \in DOMAIN jobStorage
  /\ <<"c", "o", "u", "n", "t">> \in DOMAIN objectPrototype
  /\ <<"c", "o", "u", "n", "t">> \in DOMAIN jobStorage[UploadId(2)].summary.categoryBreakdown

\* C15: a step of the service leaves the records and the summary of every
\* job that stays stored as they were.
C15_StoredJobsNeverChange ==
  [][\A jobId \in DOMAIN jobStorage :
       jobId \in DOMAIN jobStorage'
       => /\ jobStorage'[jobId].data = jobStorage[jobId].data
          /\ jobStorage'[jobId].summary = jobStorage[jobId].summary]_vars

\* C15, a case: two jobs with different records are stored, and the first
\* one has just been exported.
C15_ExportedAfterSecondUploadCase ==
  /\ UploadId(1) \in DOMAIN jobStorage
  /\ UploadId(2) \in DOMAIN jobStorage
  /\ jobStorage[UploadId(1)].data # jobStorage[UploadId(2)].data
  /\ call.fn = "exportResults"
  /\ call.arg.jobId = UploadId(1)
  /\ call.ret.status = 200
  /\ call.ret.body.rows = processData(uploads[1].request.rows)

LookupCalled == call.fn \in {"getJobStatus", "getResults", "exportResults"}

\* A lookup answers 'Job not found' exactly for an id that is not stored.
LookupsFindStoredJobs ==
  LookupCalled =>
    /\ call.arg.jobId \notin DOMAIN jobStorage => call.ret = JobNotFound
    /\ call.arg.jobId \in DOMAIN jobStorage => call.ret.status = 200

\* A job that was stored less than an hour ago is stored.
YoungJobsAreStored ==
  \A i \in 1..Len(uploads) :
    (~HasNullRow(uploads[i].request.rows) /\ clock - uploads[i].minute < OneHour)
      => UploadId(i) \in DOMAIN jobStorage

\* A sweep removes the jobs stored more than an hour before it, and only them.
SweepRemovesOldJobsOnly ==
  call'.fn = "cleanupOldJobs" =>
    /\ DOMAIN jobStorage' =
         {jobId \in DOMAIN jobStorage : clock - jobStorage[jobId].timestamp.minute <= OneHour}
    /\ \A jobId \in DOMAIN jobStorage' : jobStorage'[jobId] = jobStorage[jobId]

\* C19: a sweep removes exactly the jobs whose timestamp is more than one
\* hour before it and leaves the others unchanged; a lookup answers 'Job not
\* found' exactly for an id that was never stored or has been evicted; a job
\* stored less than an hour ago is found.
C19_RegistryLookupsAndSweeps ==
  /\ [](LookupsFindStoredJobs /\ YoungJobsAreStored)
  /\ [][SweepRemovesOldJobsOnly]_vars

====
